---- MODULE Spec2Model ----
(***************************************************************************)
(* agent-exporter: normalization -> pricing -> aggregation pipeline.       *)
(*                                                                         *)
(* Conventions of the model                                                *)
(*  - A date string 'YYYY-MM-DD' is the triple <<year, month, day>>; the   *)
(*    order of the zero-padded strings is the lexicographic order of the   *)
(*    triples.                                                             *)
(*  - A dayjs value at local midnight is the number of days since          *)
(*    1970-01-01 of its calendar date.                                     *)
(*  - A JS Map is a sequence of [key, value] pairs in insertion order.     *)
(*  - Costs of stored records are counted in quarter dollars, token counts *)
(*    are naturals: all sums of the drawn values are exact in IEEE-754.    *)
(***************************************************************************)
EXTENDS Integers, Sequences, FiniteSets, TLC

VARIABLES
    messages,       \* aggregateMessagesByDailyUsage: the input UnifiedMessage[]
    dailyUsage,     \* aggregateMessagesByDailyUsage: the returned DailyUsage[]
    aggPc,          \* "idle" | "ready" | "done"
    heap,           \* the DailyUsage objects; a reference is an index of heap
    fillInput,      \* fillMissingDates: the dailyUsage array (references)
    startDate,      \* fillMissingDates: startDate
    endDate,        \* fillMissingDates: endDate
    fillResult,     \* fillMissingDates: the returned array (references)
    fillPc,         \* "idle" | "ready" | "done"
    model,          \* pricing: the model name of the query
    usage,          \* pricing: the four token counts of the query
    providerId,     \* pricing: the provider hint, "" when none is given
    primary,        \* pricing: what calcPrice answers to this query
    priceTable,     \* pricing: the fallback table (FALLBACK_PRICES)
    costResult,     \* pricing: the call of calculateCost and its result
    detailed,       \* pricing: the call of calculateDetailedCost and its result
    lookups,        \* pricing: the results of direct findFallbackPrice calls
    pricing,        \* pricing: the call of getModelPricing and its result
    raised,         \* pricing: the functions whose call raised a TypeError
    statMessages,   \* computeUsageSummary: the messages argument
    statDaily,      \* computeUsageSummary: the dailyUsage argument
    summary,        \* computeUsageSummary: the call and the returned UsageSummary
    store,          \* database: the rows of the messages table, in rowid order
    ccJson,         \* ingest: the parsed cc.json export
    dbLog,          \* database: the calls made so far, with the table before and after
    statsRange,     \* displayStats: startDate and endDate
    shown,          \* displayStats: the call and the summary it renders
    fetches,        \* sync: what the fetch of each provider adapter does
    syncOptions,    \* sync: the options of the command
    syncState,      \* database: the rows of the sync_state table
    syncOut,        \* sync: the run and what it did
    rawSource,      \* providers: what each provider's local data holds
    normalized,     \* providers: the fetchMessages calls and their results
    exportRun,      \* exporters: the options and the reports generated
    dash,           \* Dashboard: its props, its state and the calls it made
    container       \* DashboardContainer: its state and the refreshes in flight

aggVars == <<messages, dailyUsage, aggPc>>
fillVars == <<heap, fillInput, startDate, endDate, fillResult, fillPc>>

priceVars == <<model, usage, providerId, primary, priceTable, costResult,
               detailed, lookups, pricing, raised>>

statVars == <<statMessages, statDaily, summary>>
dbVars == <<store, ccJson, dbLog>>
showVars == <<statsRange, shown>>

coreVars == <<aggVars, fillVars, priceVars>>
syncVars == <<fetches, syncOptions, syncState, syncOut>>
normVars == <<rawSource, normalized>>
lateVars == <<normVars, exportRun, dash, container>>
restVars == <<statVars, dbVars, showVars, syncVars, lateVars>>

vars == <<coreVars, restVars>>

\* the variables of the other components, as seen from each component
aggOthers == <<fillVars, priceVars, restVars>>
fillOthers == <<aggVars, priceVars, restVars>>
priceOthers == <<aggVars, fillVars, restVars>>
statOthers == <<coreVars, dbVars, showVars, syncVars, lateVars>>
showOthers == <<coreVars, statVars, dbVars, syncVars, lateVars>>
earlyVars == <<coreVars, statVars, dbVars, showVars, syncVars>>
normOthers == <<earlyVars, exportRun, dash, container>>
exportOthers == <<coreVars, statVars, ccJson, dbLog, showVars, syncVars, normVars,
                  dash, container>>
dashOthers == <<earlyVars, normVars, exportRun, container>>
containerOthers == <<earlyVars, normVars, exportRun, dash>>

----------------------------------------------------------------------------
(* Bounds *)

MaxMsgs == 3
MaxDaily == 2
MaxSpan == 4
MaxTokens == 1
MaxLookups == 2
MaxSummaryMsgs == 3
MaxSummaryDays == 2
MaxStoreRows == 3
MaxStatsSpan == 2
MaxDbCalls == 2
MaxRecalcRows == 3
MaxFiles == 2
MaxCodexDays == 2
MaxCodexCost == 3
MaxExportRows == 3
MaxKeys == 5
MaxRefreshes == 4

----------------------------------------------------------------------------
(* Generic helpers *)

RECURSIVE SumSeq(_)
SumSeq(s) == IF s = <<>> THEN 0 ELSE s[1] + SumSeq(Tail(s))

SeqsUpTo(S, n) == UNION {[1..k -> S] : k \in 0..n}

Range(s) == {s[i] : i \in DOMAIN s}

----------------------------------------------------------------------------
(* JS Map with insertion order *)

RECURSIVE mapIndexFrom(_, _, _)
mapIndexFrom(m, k, i) ==
    IF i > Len(m) THEN 0
    ELSE IF m[i].key = k THEN i
    ELSE mapIndexFrom(m, k, i + 1)

\* Map.prototype.get: index of the pair with key k, 0 for undefined
mapIndex(m, k) == mapIndexFrom(m, k, 1)

\* Map.prototype.set on a key that is not yet in the map
mapSetNew(m, k, v) == Append(m, [key |-> k, value |-> v])

----------------------------------------------------------------------------
(* aggregator.ts *)

createEmptyDailyUsage(date) ==
    [date |-> date,
     inputTokens |-> 0,
     outputTokens |-> 0,
     cacheCreationTokens |-> 0,
     cacheReadTokens |-> 0,
     totalTokens |-> 0,
     totalCost |-> 0,
     modelsUsed |-> <<>>,
     modelBreakdowns |-> <<>>]

createEmptyModelBreakdown(modelName) ==
    [modelName |-> modelName,
     inputTokens |-> 0,
     outputTokens |-> 0,
     cacheCreationTokens |-> 0,
     cacheReadTokens |-> 0,
     cost |-> 0]

\* a.localeCompare(b) on two 'YYYY-MM-DD' strings
localeCompare(a, b) ==
    IF a[1] # b[1] THEN (IF a[1] < b[1] THEN -1 ELSE 1)
    ELSE IF a[2] # b[2] THEN (IF a[2] < b[2] THEN -1 ELSE 1)
    ELSE IF a[3] # b[3] THEN (IF a[3] < b[3] THEN -1 ELSE 1)
    ELSE 0

\* variant: the cost of the message replaces the bucket's cost
addToBreakdownAssignCost(breakdown, msg) ==
    [breakdown EXCEPT
        !.inputTokens = @ + msg.inputTokens,
        !.outputTokens = @ + msg.outputTokens,
        !.cacheCreationTokens = @ + msg.cacheCreationTokens,
        !.cacheReadTokens = @ + msg.cacheReadTokens,
        !.cost = msg.cost]

\* breakdown.x += msg.x for the five accumulated fields
addToBreakdown(breakdown, msg) ==
    [breakdown EXCEPT
        !.inputTokens = @ + msg.inputTokens,
        !.outputTokens = @ + msg.outputTokens,
        !.cacheCreationTokens = @ + msg.cacheCreationTokens,
        !.cacheReadTokens = @ + msg.cacheReadTokens,
        !.cost = @ + msg.cost]

\* body of the first loop: one message accumulated into dailyMap
accumulateMessage(dailyMap, msg) ==
    LET dm == IF mapIndex(dailyMap, msg.date) = 0
              THEN mapSetNew(dailyMap, msg.date, <<>>)
              ELSE dailyMap
        di == mapIndex(dm, msg.date)
        modelMap == IF mapIndex(dm[di].value, msg.model) = 0
                    THEN mapSetNew(dm[di].value, msg.model,
                                   createEmptyModelBreakdown(msg.model))
                    ELSE dm[di].value
        mi == mapIndex(modelMap, msg.model)
    IN  [dm EXCEPT ![di].value =
            [modelMap EXCEPT ![mi].value = addToBreakdown(@, msg)]]

RECURSIVE accumulateAll(_, _)
accumulateAll(dailyMap, msgs) ==
    IF msgs = <<>> THEN dailyMap
    ELSE accumulateAll(accumulateMessage(dailyMap, Head(msgs)), Tail(msgs))

\* inner loop of the second loop: one breakdown added to the day
addBreakdownToDaily(daily, breakdown) ==
    [daily EXCEPT
        !.inputTokens = @ + breakdown.inputTokens,
        !.outputTokens = @ + breakdown.outputTokens,
        !.cacheCreationTokens = @ + breakdown.cacheCreationTokens,
        !.cacheReadTokens = @ + breakdown.cacheReadTokens,
        !.totalCost = @ + breakdown.cost,
        !.modelsUsed = Append(@, breakdown.modelName)]

RECURSIVE addBreakdowns(_, _)
addBreakdowns(daily, breakdowns) ==
    IF breakdowns = <<>> THEN daily
    ELSE addBreakdowns(addBreakdownToDaily(daily, Head(breakdowns)),
                       Tail(breakdowns))

\* variant: the cache reads are left out of totalTokens
deriveTotalTokensNoCacheRead(daily) ==
    [daily EXCEPT !.totalTokens =
        daily.inputTokens + daily.outputTokens + daily.cacheCreationTokens]

\* daily.totalTokens = the four category sums
deriveTotalTokens(daily) ==
    [daily EXCEPT !.totalTokens =
        daily.inputTokens + daily.outputTokens +
        daily.cacheCreationTokens + daily.cacheReadTokens]

\* body of the second loop: the DailyUsage of one [date, modelMap] entry
buildDaily(entry) ==
    LET modelBreakdowns == [i \in DOMAIN entry.value |-> entry.value[i].value]
        daily == [createEmptyDailyUsage(entry.key)
                    EXCEPT !.modelBreakdowns = modelBreakdowns]
    IN  deriveTotalTokens(addBreakdowns(daily, modelBreakdowns))

\* Array.prototype.sort with the date comparator (stable)
RECURSIVE insertByDate(_, _)
insertByDate(sorted, d) ==
    IF sorted = <<>> THEN <<d>>
    ELSE IF localeCompare(d.date, Head(sorted).date) < 0
         THEN <<d>> \o sorted
         ELSE <<Head(sorted)>> \o insertByDate(Tail(sorted), d)

RECURSIVE sortByDateFrom(_, _)
sortByDateFrom(sorted, rest) ==
    IF rest = <<>> THEN sorted
    ELSE sortByDateFrom(insertByDate(sorted, Head(rest)), Tail(rest))

\* variant: the days are returned in Map insertion order
sortByDateOmitted(days) == days

sortByDate(days) == sortByDateFrom(<<>>, days)

aggregateMessagesByDailyUsage(msgs) ==
    LET dailyMap == accumulateAll(<<>>, msgs)
    IN  sortByDate([i \in DOMAIN dailyMap |-> buildDaily(dailyMap[i])])

----------------------------------------------------------------------------
(* Inputs of the aggregation *)

AggDates == {<<2023, 12, 31>>, <<2024, 1, 2>>, <<2024, 1, 10>>}
AggModels == {"m1", "m2"}

\* token and cost profiles of a record; cost in quarter dollars
UsageProfiles ==
    {[inputTokens |-> 100, outputTokens |-> 60, cacheCreationTokens |-> 0,
      cacheReadTokens |-> 0, cost |-> 1],
     [inputTokens |-> 1, outputTokens |-> 2, cacheCreationTokens |-> 4,
      cacheReadTokens |-> 8, cost |-> 2],
     [inputTokens |-> 0, outputTokens |-> 0, cacheCreationTokens |-> 0,
      cacheReadTokens |-> 0, cost |-> 0]}

UnifiedMessages ==
    {[date |-> d, model |-> m,
      inputTokens |-> u.inputTokens, outputTokens |-> u.outputTokens,
      cacheCreationTokens |-> u.cacheCreationTokens,
      cacheReadTokens |-> u.cacheReadTokens, cost |-> u.cost] :
        d \in AggDates, m \in AggModels, u \in UsageProfiles}

----------------------------------------------------------------------------
(* Specification of the aggregation *)

(* JS strings as sequences of characters *)

UpperCase == <<"A", "B", "C", "D", "E", "F", "G", "H", "I", "J", "K", "L", "M",
               "N", "O", "P", "Q", "R", "S", "T", "U", "V", "W", "X", "Y", "Z">>
LowerCase == <<"a", "b", "c", "d", "e", "f", "g", "h", "i", "j", "k", "l", "m",
               "n", "o", "p", "q", "r", "s", "t", "u", "v", "w", "x", "y", "z">>
WhiteSpace == {" ", "\t", "\n"}
Digits == <<"0", "1", "2", "3", "4", "5", "6", "7", "8", "9">>

Punctuation == {"-", ".", "/", "_", ":"}

Chars ==
    Range(UpperCase) \cup Range(LowerCase) \cup Range(Digits)
    \cup WhiteSpace \cup Punctuation

\* the lower-case form of each character
lowerOf ==
    [c \in Chars |->
        IF \E k \in DOMAIN UpperCase : UpperCase[k] = c
        THEN LowerCase[CHOOSE k \in DOMAIN UpperCase : UpperCase[k] = c]
        ELSE c]

\* String.prototype.toLowerCase
toLowerCase(str) == [i \in DOMAIN str |-> lowerOf[str[i]]]

\* String.prototype.trim
RECURSIVE trimStart(_)
trimStart(str) ==
    IF str # <<>> /\ Head(str) \in WhiteSpace THEN trimStart(Tail(str)) ELSE str

RECURSIVE trimEnd(_)
trimEnd(str) ==
    IF str # <<>> /\ str[Len(str)] \in WhiteSpace
    THEN trimEnd(SubSeq(str, 1, Len(str) - 1)) ELSE str

trim(str) == trimEnd(trimStart(str))

\* String.prototype.includes
includes(str, part) ==
    \E i \in 0..(Len(str) - Len(part)) : SubSeq(str, i + 1, i + Len(part)) = part

----------------------------------------------------------------------------
(* prices.ts *)

\* Rates are in 1e-5 USD per 1M tokens; a provider-less entry has no
\* provider field, an entry without a cache rate has no such field.
FALLBACK_PRICES ==
    <<[model |-> <<"g", "l", "m", "-", "4", ".", "5">>, inputPer1M |-> 35000, outputPer1M |-> 155000],
      [model |-> <<"g", "l", "m", "-", "4", ".", "5", "-", "a", "i", "r">>, inputPer1M |-> 13000, outputPer1M |-> 85000],
      [model |-> <<"q", "w", "e", "n", "/", "q", "w", "e", "n", "3", "-", "c", "o", "d", "e", "r", "-", "3", "0", "b">>, inputPer1M |-> 6000,
       outputPer1M |-> 25000],
      [model |-> <<"c", "o", "d", "e", "r", "-", "m", "o", "d", "e", "l">>, inputPer1M |-> 100000, outputPer1M |-> 500000],
      [model |-> <<"g", "e", "m", "i", "n", "i", "-", "2", ".", "5", "-", "p", "r", "o">>, inputPer1M |-> 125000,
       outputPer1M |-> 500000, cacheReadPer1M |-> 31250],
      [model |-> <<"g", "e", "m", "i", "n", "i", "-", "2", ".", "0", "-", "f", "l", "a", "s", "h", "-", "e", "x", "p">>, inputPer1M |-> 0, outputPer1M |-> 0],
      [model |-> <<"g", "e", "m", "i", "n", "i", "-", "2", ".", "0", "-", "f", "l", "a", "s", "h", "-", "t", "h", "i", "n", "k", "i", "n", "g", "-", "e", "x", "p">>, inputPer1M |-> 0,
       outputPer1M |-> 0],
      [model |-> <<"g", "e", "m", "i", "n", "i", "-", "1", ".", "5", "-", "p", "r", "o">>, inputPer1M |-> 125000,
       outputPer1M |-> 500000, cacheReadPer1M |-> 31250],
      [model |-> <<"g", "e", "m", "i", "n", "i", "-", "1", ".", "5", "-", "f", "l", "a", "s", "h">>, inputPer1M |-> 7500,
       outputPer1M |-> 30000, cacheReadPer1M |-> 1875]>>

\* p.provider, "" for undefined
providerOf(p) == IF "provider" \in DOMAIN p THEN p.provider ELSE ""

\* Array.prototype.find: the index of the first entry in Matching, 0 if none
RECURSIVE findFrom(_, _, _)
findFrom(table, Matching, i) ==
    IF i > Len(table) THEN 0
    ELSE IF i \in Matching THEN i
    ELSE findFrom(table, Matching, i + 1)

find(table, Matching) == findFrom(table, Matching, 1)

\* the three predicates handed to find
exactMatches(table, modelName, provider) ==
    {i \in DOMAIN table :
        table[i].model = modelName /\ "provider" \in DOMAIN table[i]
        /\ table[i].provider = provider}

modelMatches(table, modelName) ==
    {i \in DOMAIN table : table[i].model = modelName}

\* variant: only the table name containing the query counts
partialMatchesOneWay(table, modelName) ==
    {i \in DOMAIN table :
        includes(toLowerCase(table[i].model), toLowerCase(modelName))}

partialMatches(table, modelName) ==
    {i \in DOMAIN table :
        \/ includes(toLowerCase(table[i].model), toLowerCase(modelName))
        \/ includes(toLowerCase(modelName), toLowerCase(table[i].model))}

\* the index of the entry returned, 0 for null
findFallbackPrice(table, modelName, provider) ==
    LET exactMatch == IF provider # ""
                      THEN find(table, exactMatches(table, modelName, provider))
                      ELSE 0
        modelMatch == find(table, modelMatches(table, modelName))
        partialMatch == find(table, partialMatches(table, modelName))
    IN  IF exactMatch # 0 THEN exactMatch
        ELSE IF modelMatch # 0 THEN modelMatch
        ELSE IF partialMatch # 0 THEN partialMatch
        ELSE 0

----------------------------------------------------------------------------
(* pricing.ts *)

\* JS values of the fields of a price record: t is the typeof of the value,
\* n its number, s its string, baseT / baseN the typeof and number of its
\* 'base' property ("absent" when it has none).  Rates are in 1e-5 USD per
\* 1M tokens, costs in 1e-11 USD, so that (tokens / 1_000_000) * rate is
\* tokens * rate.
Undefined == [t |-> "undefined", n |-> 0, s |-> <<>>, baseT |-> "absent", baseN |-> 0]
Num(n) == [t |-> "number", n |-> n, s |-> <<>>, baseT |-> "absent", baseN |-> 0]
Str(s) == [t |-> "string", n |-> 0, s |-> s, baseT |-> "absent", baseN |-> 0]
Obj(baseT, baseN) == [t |-> "object", n |-> 0, s |-> <<>>, baseT |-> baseT, baseN |-> baseN]
Null == [t |-> "null", n |-> 0, s |-> <<>>, baseT |-> "absent", baseN |-> 0]

\* typeof value: null is an 'object' to typeof
typeOf(value) == IF value.t = "null" THEN "object" ELSE value.t

\* 'key' in value raises a TypeError unless value is an object
inRaises(value) == value.t # "object"

\* value of a string of decimal digits
RECURSIVE digitsValue(_)
digitsValue(str) ==
    IF str = <<>> THEN 0
    ELSE digitsValue(SubSeq(str, 1, Len(str) - 1)) * 10
         + (CHOOSE k \in DOMAIN Digits : Digits[k] = str[Len(str)]) - 1

isDigits(str) == \A i \in DOMAIN str : \E k \in DOMAIN Digits : Digits[k] = str[i]

\* Number(value) of a string, in rate units (1 is 100000): decimal literals
\* with at most five fraction digits are finite, every other text of the
\* inputs is NaN
Number(str) ==
    LET text == trim(str)
        dots == {i \in DOMAIN text : text[i] = "."}
        dot == CHOOSE i \in dots : TRUE
        whole == SubSeq(text, 1, dot - 1)
        frac == SubSeq(text, dot + 1, Len(text))
    IN  IF text = <<>> THEN [finite |-> TRUE, v |-> 0]
        ELSE IF isDigits(text)
             THEN [finite |-> TRUE, v |-> digitsValue(text) * 100000]
        ELSE IF Cardinality(dots) = 1 /\ isDigits(whole) /\ isDigits(frac)
                /\ Len(whole) + Len(frac) > 0 /\ Len(frac) <= 5
             THEN [finite |-> TRUE,
                   v |-> digitsValue(whole) * 100000
                         + digitsValue(frac) * 10 ^ (5 - Len(frac))]
        ELSE [finite |-> FALSE, v |-> 0]

isTieredPrice(value) ==
    /\ typeOf(value) = "object"
    /\ value # Null
    /\ value.baseT # "absent"
    /\ value.baseT = "number"

\* isTieredPrice without its null test
isTieredPriceRaisesUnguarded(value) ==
    typeOf(value) = "object" /\ inRaises(value)

\* whether isTieredPrice(value) raises: the conjuncts are evaluated in order
\* and 'base' in value is reached only past the two tests before it
isTieredPriceRaises(value) ==
    typeOf(value) = "object" /\ value # Null /\ inRaises(value)

extractPrice(value) ==
    IF value.t = "number" THEN value.n
    ELSE IF value.t = "string"
         THEN (IF Number(value.s).finite THEN Number(value.s).v ELSE 0)
    ELSE IF isTieredPrice(value) THEN value.baseN
    ELSE 0

\* whether extractPrice(value) raises
extractPriceRaises(value) ==
    /\ value.t # "number"
    /\ value.t # "string"
    /\ isTieredPriceRaises(value)

\* prices.key of a price record, undefined for a key it does not have
priceField(prices, key) ==
    IF key \in prices.keys THEN prices.val[key] ELSE Undefined

\* fallbackPrice.x ?? 0
orZero(fallbackPrice, field) ==
    IF field \in DOMAIN fallbackPrice THEN fallbackPrice[field] ELSE 0

\* the four terms computed from a fallback entry
fallbackCosts(fallbackPrice, tokens) ==
    [inputCost |-> tokens.inputTokens * fallbackPrice.inputPer1M,
     outputCost |-> tokens.outputTokens * fallbackPrice.outputPer1M,
     cacheWriteCost |->
        tokens.cacheCreationTokens * orZero(fallbackPrice, "cacheWritePer1M"),
     cacheReadCost |->
        tokens.cacheReadTokens * orZero(fallbackPrice, "cacheReadPer1M")]

\* variant: the cache reads are priced at the input rate
calculateFromFallbackInputRate(fallbackPrice, tokens) ==
    tokens.inputTokens * fallbackPrice.inputPer1M
    + tokens.outputTokens * fallbackPrice.outputPer1M
    + tokens.cacheCreationTokens * orZero(fallbackPrice, "cacheWritePer1M")
    + tokens.cacheReadTokens * fallbackPrice.inputPer1M

calculateFromFallback(fallbackPrice, tokens) ==
    LET c == fallbackCosts(fallbackPrice, tokens)
    IN  c.inputCost + c.outputCost + c.cacheWriteCost + c.cacheReadCost

\* variant: only the empty string is rejected
isBlankEmptyOnly(modelName) == modelName = <<>>

\* !model || model.trim() === ''
isBlank(modelName) == modelName = <<>> \/ trim(modelName) = <<>>

\* !Array.isArray(prices) && 'cache_write_mtok' in prices
hasCachePrices(prices) == ~prices.isArray /\ "cache_write_mtok" \in prices.keys

\* The result carries the returned number and what the call did: queried is
\* whether calcPrice was called, consulted whether findFallbackPrice was.
calculateCost(table, modelName, tokens, provider, answer) ==
    IF isBlank(modelName)
    THEN [value |-> 0, queried |-> FALSE, consulted |-> FALSE]
    ELSE IF answer.known
    THEN [value |->
            IF (tokens.cacheCreationTokens > 0 \/ tokens.cacheReadTokens > 0)
               /\ hasCachePrices(answer.prices)
            THEN answer.total_price
                 + (tokens.cacheCreationTokens
                      * extractPrice(priceField(answer.prices, "cache_write_mtok"))
                    + tokens.cacheReadTokens
                      * extractPrice(priceField(answer.prices, "cache_read_mtok")))
            ELSE answer.total_price,
          queried |-> TRUE, consulted |-> FALSE]
    ELSE LET fallbackPrice == findFallbackPrice(table, modelName, provider)
         IN  [value |-> IF fallbackPrice # 0
                        THEN calculateFromFallback(table[fallbackPrice], tokens)
                        ELSE 0,
              queried |-> TRUE, consulted |-> TRUE]

\* the 'none' result
noCost(queried, consulted) ==
    [totalCost |-> 0, inputCost |-> 0, outputCost |-> 0, cacheWriteCost |-> 0,
     cacheReadCost |-> 0, providerName |-> "", modelName |-> <<>>,
     source |-> "none", queried |-> queried, consulted |-> consulted]

\* variant: a model the primary service prices is reported from the table
\* when the table has it too
detailedSourcePreferFallback(answer, fallbackPrice) ==
    IF fallbackPrice # 0 THEN "fallback"
    ELSE IF answer.known THEN "genai-prices"
    ELSE "none"

\* which branch of calculateDetailedCost answers a non-blank model
detailedSource(answer, fallbackPrice) ==
    IF answer.known THEN "genai-prices"
    ELSE IF fallbackPrice # 0 THEN "fallback"
    ELSE "none"

calculateDetailedCost(table, modelName, tokens, provider, answer) ==
    IF isBlank(modelName) THEN noCost(FALSE, FALSE)
    ELSE LET fallbackPrice == findFallbackPrice(table, modelName, provider)
             source == detailedSource(answer, fallbackPrice)
         IN
         IF source = "genai-prices"
         THEN LET cached == hasCachePrices(answer.prices)
                  cacheWriteCost ==
                    IF cached
                    THEN tokens.cacheCreationTokens
                         * extractPrice(priceField(answer.prices, "cache_write_mtok"))
                    ELSE 0
                  cacheReadCost ==
                    IF cached
                    THEN tokens.cacheReadTokens
                         * extractPrice(priceField(answer.prices, "cache_read_mtok"))
                    ELSE 0
              IN  [totalCost |-> answer.input_price + answer.output_price
                                 + cacheWriteCost + cacheReadCost,
                   inputCost |-> answer.input_price,
                   outputCost |-> answer.output_price,
                   cacheWriteCost |-> cacheWriteCost,
                   cacheReadCost |-> cacheReadCost,
                   providerName |-> answer.providerName,
                   modelName |-> answer.modelName,
                   source |-> "genai-prices",
                   queried |-> TRUE, consulted |-> FALSE]
         ELSE IF source = "fallback"
         THEN LET c == fallbackCosts(table[fallbackPrice], tokens)
              IN  [totalCost |-> c.inputCost + c.outputCost
                                 + c.cacheWriteCost + c.cacheReadCost,
                   inputCost |-> c.inputCost,
                   outputCost |-> c.outputCost,
                   cacheWriteCost |-> c.cacheWriteCost,
                   cacheReadCost |-> c.cacheReadCost,
                   providerName |-> providerOf(table[fallbackPrice]),
                   modelName |-> table[fallbackPrice].model,
                   source |-> "fallback",
                   queried |-> TRUE, consulted |-> TRUE]
         ELSE noCost(TRUE, TRUE)

\* the two extractPrice calls of the cache prices
cachePricesRaise(prices) ==
    \/ extractPriceRaises(priceField(prices, "cache_write_mtok"))
    \/ extractPriceRaises(priceField(prices, "cache_read_mtok"))

\* whether the call of calculateCost raises
calculateCostRaises(modelName, tokens, answer) ==
    /\ ~isBlank(modelName)
    /\ answer.known
    /\ tokens.cacheCreationTokens > 0 \/ tokens.cacheReadTokens > 0
    /\ hasCachePrices(answer.prices)
    /\ cachePricesRaise(answer.prices)

\* whether the call of calculateDetailedCost raises
calculateDetailedCostRaises(modelName, answer) ==
    /\ ~isBlank(modelName)
    /\ answer.known
    /\ hasCachePrices(answer.prices)
    /\ cachePricesRaise(answer.prices)

\* !Array.isArray(prices) && 'input_mtok' in prices
hasInputPrice(prices) == ~prices.isArray /\ "input_mtok" \in prices.keys

\* the null result of getModelPricing
noPricing(queried, consulted) ==
    [isNull |-> TRUE, inputPer1M |-> 0, outputPer1M |-> 0,
     cacheWritePer1M |-> 0, cacheReadPer1M |-> 0,
     queried |-> queried, consulted |-> consulted]

\* calcPrice is asked about 1M input and 1M output tokens; the answer is
\* null or carries the price record of the model, answer.prices
getModelPricing(table, modelName, provider, answer) ==
    IF isBlank(modelName) THEN noPricing(FALSE, FALSE)
    ELSE IF answer.known /\ hasInputPrice(answer.prices)
    THEN [isNull |-> FALSE,
          inputPer1M |-> extractPrice(priceField(answer.prices, "input_mtok")),
          outputPer1M |-> extractPrice(priceField(answer.prices, "output_mtok")),
          cacheWritePer1M |->
            extractPrice(priceField(answer.prices, "cache_write_mtok")),
          cacheReadPer1M |->
            extractPrice(priceField(answer.prices, "cache_read_mtok")),
          queried |-> TRUE, consulted |-> FALSE]
    ELSE LET fallbackPrice == findFallbackPrice(table, modelName, provider)
         IN  IF fallbackPrice # 0
             THEN [isNull |-> FALSE,
                   inputPer1M |-> table[fallbackPrice].inputPer1M,
                   outputPer1M |-> table[fallbackPrice].outputPer1M,
                   cacheWritePer1M |-> orZero(table[fallbackPrice], "cacheWritePer1M"),
                   cacheReadPer1M |-> orZero(table[fallbackPrice], "cacheReadPer1M"),
                   queried |-> TRUE, consulted |-> TRUE]
             ELSE noPricing(TRUE, TRUE)

\* whether the call of getModelPricing raises
getModelPricingRaises(modelName, answer) ==
    /\ ~isBlank(modelName)
    /\ answer.known
    /\ hasInputPrice(answer.prices)
    /\ \E key \in {"input_mtok", "output_mtok", "cache_write_mtok",
                    "cache_read_mtok"} :
            extractPriceRaises(priceField(answer.prices, key))

----------------------------------------------------------------------------
AggIdle ==
    /\ messages = <<>>
    /\ dailyUsage = <<>>
    /\ aggPc = "idle"

FillIdle ==
    /\ heap = <<>>
    /\ fillInput = <<>>
    /\ startDate = <<1970, 1, 1>>
    /\ endDate = <<1970, 1, 1>>
    /\ fillResult = <<>>
    /\ fillPc = "idle"

PriceIdle ==
    /\ model = <<>>
    /\ usage = [inputTokens |-> 0, outputTokens |-> 0,
                cacheCreationTokens |-> 0, cacheReadTokens |-> 0]
    /\ providerId = ""
    /\ primary = [known |-> FALSE]
    /\ priceTable = <<>>
    /\ costResult = [done |-> FALSE]
    /\ detailed = [done |-> FALSE]
    /\ lookups = <<>>
    /\ pricing = [done |-> FALSE]
    /\ raised = {}

StatIdle ==
    /\ statMessages = <<>>
    /\ statDaily = <<>>
    /\ summary = [done |-> FALSE]

DbIdle ==
    /\ store = <<>>
    /\ ccJson = [daily |-> <<>>, sections |-> <<>>]
    /\ dbLog = <<>>

ShowIdle ==
    /\ statsRange = [start |-> <<>>, end |-> <<>>]
    /\ shown = [done |-> FALSE]

CoreIdle == AggIdle /\ FillIdle /\ PriceIdle
SyncIdle ==
    /\ fetches = <<>>
    /\ syncOptions = [provider |-> "all", recalculateCosts |-> FALSE]
    /\ syncState = <<>>
    /\ syncOut = [done |-> FALSE]

NormIdle ==
    /\ rawSource = <<>>
    /\ normalized = <<>>

ExportIdle == exportRun = <<>>
DashIdle == dash = <<>>
ContainerIdle == container = <<>>

LateIdle == NormIdle /\ ExportIdle /\ DashIdle /\ ContainerIdle

RestIdle == StatIdle /\ DbIdle /\ ShowIdle /\ SyncIdle /\ LateIdle

AggInit ==
    /\ messages \in SeqsUpTo(UnifiedMessages, MaxMsgs)
    /\ dailyUsage = <<>>
    /\ aggPc = "ready"
    /\ FillIdle
    /\ PriceIdle
    /\ RestIdle

Aggregate ==
    /\ aggPc = "ready"
    /\ dailyUsage' = aggregateMessagesByDailyUsage(messages)
    /\ aggPc' = "done"
    /\ UNCHANGED <<messages, aggOthers>>

AggNext == Aggregate

SpecAgg == AggInit /\ [][AggNext]_vars

----------------------------------------------------------------------------
(* Properties of the aggregation *)

SumOf(s, f) == SumSeq([i \in DOMAIN s |-> s[i][f]])

\* C1: the cost and each of the four token categories, summed over the
\* returned days, equal the same field summed over the input records.
AggregationSumInvariant ==
    aggPc = "done" =>
        /\ SumOf(dailyUsage, "totalCost") = SumOf(messages, "cost")
        /\ \A f \in {"inputTokens", "outputTokens",
                      "cacheCreationTokens", "cacheReadTokens"} :
                SumOf(dailyUsage, f) = SumOf(messages, f)

\* records on two dates, two of them in one (date, model) bucket, cost > 0
AggregationSumWitness ==
    /\ aggPc = "done"
    /\ Len(messages) = 3
    /\ Len(dailyUsage) = 2
    /\ messages[1].date = messages[3].date
    /\ messages[1].model = messages[3].model
    /\ messages[1].cost > 0 /\ messages[2].cost > 0 /\ messages[3].cost > 0
    /\ messages[1].cacheReadTokens > 0

\* C2: in every returned day totalTokens is the sum of the day's four
\* token sums, and each token sum and totalCost is the sum of that field
\* over the day's modelBreakdowns.
DailyTotalsMatchBreakdowns ==
    aggPc = "done" =>
        \A i \in DOMAIN dailyUsage :
            LET day == dailyUsage[i] IN
            /\ day.totalTokens = day.inputTokens + day.outputTokens +
                    day.cacheCreationTokens + day.cacheReadTokens
            /\ day.totalCost = SumOf(day.modelBreakdowns, "cost")
            /\ \A f \in {"inputTokens", "outputTokens",
                          "cacheCreationTokens", "cacheReadTokens"} :
                    day[f] = SumOf(day.modelBreakdowns, f)

\* a day with two model breakdowns, both with cache reads
DailyTotalsWitness ==
    /\ aggPc = "done"
    /\ \E i \in DOMAIN dailyUsage :
          /\ Len(dailyUsage[i].modelBreakdowns) = 2
          /\ dailyUsage[i].modelBreakdowns[1].cacheReadTokens > 0
          /\ dailyUsage[i].modelBreakdowns[2].cacheReadTokens > 0
          /\ dailyUsage[i].totalCost > 0

MessageDates == {messages[i].date : i \in DOMAIN messages}
ModelsOn(date) ==
    {messages[i].model : i \in {j \in DOMAIN messages : messages[j].date = date}}

\* C3: one DailyUsage per distinct record date, in strictly ascending date
\* order; in each day one ModelBreakdown per distinct model seen on that
\* date, and modelsUsed lists each of these models exactly once.
PartitionByDateAndModel ==
    aggPc = "done" =>
        /\ {dailyUsage[i].date : i \in DOMAIN dailyUsage} = MessageDates
        /\ Len(dailyUsage) = Cardinality(MessageDates)
        /\ \A i \in 1..(Len(dailyUsage) - 1) :
                localeCompare(dailyUsage[i].date, dailyUsage[i + 1].date) < 0
        /\ \A i \in DOMAIN dailyUsage :
                LET day == dailyUsage[i] IN
                /\ {day.modelBreakdowns[k].modelName :
                        k \in DOMAIN day.modelBreakdowns} = ModelsOn(day.date)
                /\ Len(day.modelBreakdowns) = Cardinality(ModelsOn(day.date))
                /\ Range(day.modelsUsed) = ModelsOn(day.date)
                /\ Len(day.modelsUsed) = Cardinality(ModelsOn(day.date))

\* the first record is dated after the second, and a (date, model) pair
\* occurs twice
PartitionWitness ==
    /\ aggPc = "done"
    /\ Len(messages) = 3
    /\ localeCompare(messages[1].date, messages[2].date) > 0
    /\ messages[3].date = messages[2].date
    /\ messages[3].model = messages[2].model
    /\ Len(dailyUsage) = 2

----------------------------------------------------------------------------
(* dayjs on calendar dates *)

\* dayjs('YYYY-MM-DD'): the day number of a date string
dayjsParse(date) ==
    LET y == IF date[2] <= 2 THEN date[1] - 1 ELSE date[1]
        era == y \div 400
        yoe == y - era * 400
        mp == (date[2] + 9) % 12
        doy == (153 * mp + 2) \div 5 + date[3] - 1
        doe == yoe * 365 + yoe \div 4 - yoe \div 100 + doy
    IN  era * 146097 + doe - 719468

\* .format('YYYY-MM-DD'): the date string of a day number
dayjsFormat(day) ==
    LET z == day + 719468
        era == z \div 146097
        doe == z - era * 146097
        yoe == (doe - doe \div 1460 + doe \div 36524 - doe \div 146096) \div 365
        doy == doe - (365 * yoe + yoe \div 4 - yoe \div 100)
        mp == (5 * doy + 2) \div 153
        d == doy - (153 * mp + 2) \div 5 + 1
        m == IF mp < 10 THEN mp + 3 ELSE mp - 9
        y == yoe + era * 400
    IN  <<IF m <= 2 THEN y + 1 ELSE y, m, d>>

\* .add(1, 'day')
dayjsAddDay(day) == day + 1

----------------------------------------------------------------------------
(* aggregator.ts: fillMissingDates *)

\* Map.prototype.set
mapSet(m, k, v) ==
    IF mapIndex(m, k) = 0 THEN mapSetNew(m, k, v)
    ELSE [m EXCEPT ![mapIndex(m, k)].value = v]

\* new Map(dailyUsage.map((d) => [d.date, d]))
RECURSIVE usageMapFrom(_, _, _)
usageMapFrom(usageMap, h, refs) ==
    IF refs = <<>> THEN usageMap
    ELSE usageMapFrom(mapSet(usageMap, h[Head(refs)].date, Head(refs)),
                      h, Tail(refs))

\* variant: the end date is excluded
loopContinuesBeforeOnly(current, end) == current < end

\* current.isBefore(end) || current.isSame(end, 'day')
loopContinues(current, end) == current < end \/ current = end

\* variant: a copy of the existing entry is pushed
pushExistingCopy(st, ref) ==
    [heap |-> Append(st.heap, st.heap[ref]),
     result |-> Append(st.result, Len(st.heap) + 1)]

\* result.push(existingUsage)
pushExisting(st, ref) ==
    [heap |-> st.heap, result |-> Append(st.result, ref)]

\* result.push(createEmptyDailyUsage(dateStr)): a new object
pushEmpty(st, dateStr) ==
    [heap |-> Append(st.heap, createEmptyDailyUsage(dateStr)),
     result |-> Append(st.result, Len(st.heap) + 1)]

\* the while loop
RECURSIVE fillLoop(_, _, _, _)
fillLoop(st, usageMap, current, end) ==
    IF ~loopContinues(current, end) THEN st
    ELSE LET dateStr == dayjsFormat(current)
             existing == mapIndex(usageMap, dateStr)
         IN  fillLoop(IF existing # 0
                        THEN pushExisting(st, usageMap[existing].value)
                        ELSE pushEmpty(st, dateStr),
                      usageMap, dayjsAddDay(current), end)

\* returns the heap after the call and the returned array
fillMissingDates(h, refs, start, end) ==
    fillLoop([heap |-> h, result |-> <<>>],
             usageMapFrom(<<>>, h, refs),
             dayjsParse(start), dayjsParse(end))

----------------------------------------------------------------------------
(* Inputs of fillMissingDates *)

\* the Gregorian calendar, by month lengths
IsLeapYear(y) == (y % 4 = 0 /\ y % 100 # 0) \/ y % 400 = 0

DaysInMonth(y, m) ==
    IF m = 2 THEN (IF IsLeapYear(y) THEN 29 ELSE 28)
    ELSE IF m \in {4, 6, 9, 11} THEN 30 ELSE 31

NextDay(date) ==
    IF date[3] < DaysInMonth(date[1], date[2])
    THEN <<date[1], date[2], date[3] + 1>>
    ELSE IF date[2] < 12 THEN <<date[1], date[2] + 1, 1>>
    ELSE <<date[1] + 1, 1, 1>>

RECURSIVE DaysAfter(_, _)
DaysAfter(date, k) == IF k = 0 THEN date ELSE DaysAfter(NextDay(date), k - 1)

FillDates ==
    {<<2023, 2, 27>>, <<2023, 12, 30>>, <<2024, 1, 1>>, <<2024, 2, 27>>,
     <<2024, 2, 29>>, <<2024, 3, 1>>, <<2100, 2, 27>>}

\* an entry as the aggregation returns it, and an all-zero entry
DailyEntries ==
    {[date |-> d, inputTokens |-> 10, outputTokens |-> 20,
      cacheCreationTokens |-> 0, cacheReadTokens |-> 0, totalTokens |-> 30,
      totalCost |-> 1, modelsUsed |-> <<"model-a">>,
      modelBreakdowns |-> <<[modelName |-> "model-a", inputTokens |-> 10,
                             outputTokens |-> 20, cacheCreationTokens |-> 0,
                             cacheReadTokens |-> 0, cost |-> 1]>>] :
        d \in FillDates}
    \cup {createEmptyDailyUsage(d) : d \in FillDates}

----------------------------------------------------------------------------
(* Specification of fillMissingDates *)

FillInit ==
    /\ heap \in SeqsUpTo(DailyEntries, MaxDaily)
    /\ fillInput = [i \in DOMAIN heap |-> i]
    /\ startDate \in FillDates
    /\ endDate \in {DaysAfter(startDate, k) : k \in 0..MaxSpan}
    /\ fillResult = <<>>
    /\ fillPc = "ready"
    /\ AggIdle
    /\ PriceIdle
    /\ RestIdle

FillMissingDates ==
    /\ fillPc = "ready"
    /\ LET out == fillMissingDates(heap, fillInput, startDate, endDate)
       IN  /\ heap' = out.heap
           /\ fillResult' = out.result
    /\ fillPc' = "done"
    /\ UNCHANGED <<fillInput, startDate, endDate, fillOthers>>

FillNext == FillMissingDates

SpecFill == FillInit /\ [][FillNext]_vars

----------------------------------------------------------------------------
(* Properties of fillMissingDates *)

RECURSIVE daysBetween(_, _)
daysBetween(start, end) ==
    IF start = end THEN 0 ELSE 1 + daysBetween(NextDay(start), end)

ResultDate(i) == heap[fillResult[i]].date

\* C4: for start <= end the result has daysBetween(start, end) + 1 entries,
\* dated with the calendar days of [start, end] in ascending order, each once.
RangeCompletionTotality ==
    fillPc = "done" =>
        /\ Len(fillResult) = daysBetween(startDate, endDate) + 1
        /\ \A i \in DOMAIN fillResult : ResultDate(i) = DaysAfter(startDate, i - 1)
        /\ ResultDate(Len(fillResult)) = endDate

\* a range of more than two days that crosses the end of a month
RangeCompletionWitness ==
    /\ fillPc = "done"
    /\ Len(fillResult) > 2
    /\ startDate[2] # endDate[2]
    /\ Len(fillInput) > 0

InputRefsDated(date) ==
    {fillInput[j] : j \in {k \in DOMAIN fillInput : heap[fillInput[k]].date = date}}

\* C5: the entry of the result at a date is an input entry of that date
\* (the same object) when the input has one, else a new zeroed entry; the
\* call changes neither the input array nor an input entry.
ExistingReusedMissingZeroed ==
    /\ [](fillPc = "done" =>
            \A i \in DOMAIN fillResult :
                IF InputRefsDated(ResultDate(i)) # {}
                THEN fillResult[i] \in InputRefsDated(ResultDate(i))
                ELSE /\ fillResult[i] \notin Range(fillInput)
                     /\ heap[fillResult[i]] = createEmptyDailyUsage(ResultDate(i)))
    /\ [][/\ fillInput' = fillInput
          /\ \A r \in Range(fillInput) : heap'[r] = heap[r]]_vars

\* the result holds both an input entry and a synthesized one
ExistingReusedWitness ==
    /\ fillPc = "done"
    /\ \E i, j \in DOMAIN fillResult :
          /\ fillResult[i] \in Range(fillInput)
          /\ heap[fillResult[i]].totalCost > 0
          /\ fillResult[j] \notin Range(fillInput)

----------------------------------------------------------------------------
(* Inputs of the pricing *)

ModelNames ==
    {<<>>, <<" ">>, <<"g", "l", "m", "-", "4", ".", "5">>, <<"g", "l", "m", "-", "4", ".", "5", "-", "a", "i", "r">>, <<"G", "L", "M", "-", "4", ".", "5", "-", "A", "i", "r">>, <<"g", "l", "m", "-", "4", ".", "6">>, <<"g", "l", "m">>,
     <<"g", "e", "m", "i", "n", "i", "-", "1", ".", "5", "-", "f", "l", "a", "s", "h", "-", "8", "b">>, <<"u", "n", "k", "n", "o", "w", "n", "-", "m", "o", "d", "e", "l">>, <<"g", "p", "t", "-", "4">>, <<"f", "l", "a", "s", "h">>}

ProviderIds == {"", "zai", "openai"}

TokenCounts ==
    [inputTokens : 0..MaxTokens, outputTokens : 0..MaxTokens,
     cacheCreationTokens : 0..MaxTokens, cacheReadTokens : 0..MaxTokens]

\* FALLBACK_PRICES as shipped, and with provider-scoped entries added
ScopedPrices ==
    FALLBACK_PRICES \o
    <<[model |-> <<"g", "l", "m", "-", "4", ".", "5">>, provider |-> "zai", inputPer1M |-> 60000,
       outputPer1M |-> 220000, cacheReadPer1M |-> 11000],
      [model |-> <<"g", "l", "m", "-", "4", ".", "6">>, provider |-> "zai", inputPer1M |-> 60000,
       outputPer1M |-> 220000, cacheWritePer1M |-> 75000,
       cacheReadPer1M |-> 11000]>>

PriceTables == {FALLBACK_PRICES, ScopedPrices}

PriceKeys == {"input_mtok", "output_mtok", "cache_write_mtok", "cache_read_mtok"}

\* a price record with the given cache fields; None is a key it does not have
None == [t |-> "none", n |-> 0, s |-> <<>>, baseT |-> "absent", baseN |-> 0]

PriceRecord(cacheWrite, cacheRead) ==
    [isArray |-> FALSE,
     keys |-> {"input_mtok", "output_mtok"}
              \cup (IF cacheWrite = None THEN {} ELSE {"cache_write_mtok"})
              \cup (IF cacheRead = None THEN {} ELSE {"cache_read_mtok"}),
     val |-> [k \in PriceKeys |->
                IF k = "input_mtok" THEN Num(300000)
                ELSE IF k = "output_mtok" THEN Num(1500000)
                ELSE IF k = "cache_write_mtok"
                     THEN (IF cacheWrite = None THEN Undefined ELSE cacheWrite)
                ELSE (IF cacheRead = None THEN Undefined ELSE cacheRead)]]

\* the price record without some of its keys
withoutKeys(prices, absent) ==
    [isArray |-> prices.isArray,
     keys |-> prices.keys \ absent,
     val |-> [k \in PriceKeys |->
                IF k \in absent THEN Undefined ELSE prices.val[k]]]

\* a list of conditional prices
PriceArray ==
    [isArray |-> TRUE, keys |-> {}, val |-> [k \in PriceKeys |-> Undefined]]

PriceShapes ==
    {PriceRecord(Num(200000), Num(100000)),
     PriceRecord(None, None),
     PriceRecord(None, Num(100000)),
     PriceRecord(Num(200000), None),
     PriceRecord(Str(<<"2">>), Str(<<"0", ".", "5">>)),
     PriceRecord(Str(<<"a", "b", "c">>), Str(<<>>)),
     PriceRecord(Obj("number", 300000), Obj("number", 30000)),
     PriceRecord(Obj("absent", 0), Obj("string", 0)),
     PriceRecord(Undefined, Num(100000)),
     PriceRecord(Null, Num(100000)),
     withoutKeys(PriceRecord(Num(200000), Num(100000)), {"input_mtok"}),
     withoutKeys(PriceRecord(None, None), {"output_mtok"}),
     PriceArray}

\* what calcPrice answers: null, or the prices of the input and output
\* tokens, the total price (their sum, plus the per-request price of a model
\* that has one), and the price record of the model
PrimaryAnswers(tokens) ==
    {[known |-> FALSE, total_price |-> 0, input_price |-> 0,
      output_price |-> 0, providerName |-> "", modelName |-> <<>>,
      prices |-> PriceArray]}
    \cup
    {[known |-> TRUE,
      total_price |-> tokens.inputTokens * 300000 + tokens.outputTokens * 1500000
                      + perRequest,
      input_price |-> tokens.inputTokens * 300000,
      output_price |-> tokens.outputTokens * 1500000,
      providerName |-> "OpenAI", modelName |-> <<"g", "p", "t", "-", "4">>,
      prices |-> shape] : shape \in PriceShapes, perRequest \in {0, 500000}}

----------------------------------------------------------------------------
(* Specification of the pricing *)

PriceInit ==
    /\ model \in ModelNames
    /\ usage \in TokenCounts
    /\ providerId \in ProviderIds
    /\ primary \in PrimaryAnswers(usage)
    /\ priceTable \in PriceTables
    /\ costResult = [done |-> FALSE, value |-> 0, queried |-> FALSE,
                     consulted |-> FALSE]
    /\ detailed = [done |-> FALSE, r |-> noCost(FALSE, FALSE)]
    /\ lookups = <<>>
    /\ pricing = [done |-> FALSE, r |-> noPricing(FALSE, FALSE)]
    /\ raised = {}
    /\ AggIdle
    /\ FillIdle
    /\ RestIdle

\* findFallbackPrice called on its own: the query and the table alone
LookupInit ==
    /\ model \in ModelNames
    /\ providerId \in ProviderIds
    /\ priceTable \in PriceTables
    /\ usage = [inputTokens |-> 0, outputTokens |-> 0,
                cacheCreationTokens |-> 0, cacheReadTokens |-> 0]
    /\ primary = [known |-> FALSE]
    /\ costResult = [done |-> FALSE]
    /\ detailed = [done |-> FALSE]
    /\ lookups = <<>>
    /\ pricing = [done |-> FALSE]
    /\ raised = {}
    /\ AggIdle
    /\ FillIdle
    /\ RestIdle

CalculateCost ==
    /\ ~costResult.done
    /\ LET r == calculateCost(priceTable, model, usage, providerId, primary)
       IN  costResult' = [done |-> TRUE, value |-> r.value,
                          queried |-> r.queried, consulted |-> r.consulted]
    /\ raised' = raised \cup (IF calculateCostRaises(model, usage, primary)
                              THEN {"calculateCost"} ELSE {})
    /\ UNCHANGED <<model, usage, providerId, primary, priceTable, detailed,
                   lookups, pricing, priceOthers>>

CalculateDetailedCost ==
    /\ ~detailed.done
    /\ detailed' = [done |-> TRUE,
                    r |-> calculateDetailedCost(priceTable, model, usage,
                                                providerId, primary)]
    /\ raised' = raised \cup (IF calculateDetailedCostRaises(model, primary)
                              THEN {"calculateDetailedCost"} ELSE {})
    /\ UNCHANGED <<model, usage, providerId, primary, priceTable, costResult,
                   lookups, pricing, priceOthers>>

GetModelPricing ==
    /\ ~pricing.done
    /\ pricing' = [done |-> TRUE,
                   r |-> getModelPricing(priceTable, model, providerId, primary)]
    /\ raised' = raised \cup (IF getModelPricingRaises(model, primary)
                              THEN {"getModelPricing"} ELSE {})
    /\ UNCHANGED <<model, usage, providerId, primary, priceTable, costResult,
                   detailed, lookups, priceOthers>>

FindFallbackPrice ==
    /\ Len(lookups) < MaxLookups
    /\ lookups' = Append(lookups, findFallbackPrice(priceTable, model, providerId))
    /\ UNCHANGED <<model, usage, providerId, primary, priceTable, costResult,
                   detailed, pricing, raised, priceOthers>>

PriceNext == CalculateCost \/ CalculateDetailedCost \/ GetModelPricing

SpecPrice == PriceInit /\ [][PriceNext]_vars

LookupNext == FindFallbackPrice

SpecLookup == LookupInit /\ [][LookupNext]_vars

----------------------------------------------------------------------------
(* Properties of the pricing *)

Least(S) == CHOOSE i \in S : \A j \in S : i <= j

\* the entry the priority rule designates for a query, 0 for none
DesignatedEntry(table, name, hint) ==
    LET both == {i \in DOMAIN table :
                    table[i].model = name /\ providerOf(table[i]) = hint}
        same == {i \in DOMAIN table : table[i].model = name}
        near == {i \in DOMAIN table :
                    \/ includes(toLowerCase(table[i].model), toLowerCase(name))
                    \/ includes(toLowerCase(name), toLowerCase(table[i].model))}
    IN  IF hint # "" /\ both # {} THEN Least(both)
        ELSE IF same # {} THEN Least(same)
        ELSE IF near # {} THEN Least(near)
        ELSE 0

BlankName == \A i \in DOMAIN model : model[i] \in WhiteSpace

PrimaryPrices == primary.known
FallbackMisses == DesignatedEntry(priceTable, model, providerId) = 0

\* C6 as stated: a priced primary answer keeps the fallback table unconsulted
\* and is reported as the primary tier; 'fallback' is reported only when the
\* primary service does not know the model; 'none' only when both miss.
TierPrecedenceAsStated ==
    /\ (costResult.done /\ costResult.queried /\ PrimaryPrices)
            => ~costResult.consulted
    /\ (detailed.done /\ detailed.r.queried /\ PrimaryPrices)
            => ~detailed.r.consulted /\ detailed.r.source = "genai-prices"
    /\ (detailed.done /\ detailed.r.source = "fallback")
            => detailed.r.queried /\ ~PrimaryPrices
    /\ (detailed.done /\ detailed.r.source = "none")
            => ~PrimaryPrices /\ FallbackMisses

\* C6: a priced primary answer keeps the fallback table unconsulted and is
\* reported as the primary tier; 'fallback' is reported only when the primary
\* service does not know the model; 'none' only when the model name is blank
\* or both the primary service and the fallback table miss.
TierPrecedence ==
    /\ (costResult.done /\ costResult.queried /\ PrimaryPrices)
            => ~costResult.consulted
    /\ (detailed.done /\ detailed.r.queried /\ PrimaryPrices)
            => ~detailed.r.consulted /\ detailed.r.source = "genai-prices"
    /\ (detailed.done /\ detailed.r.source = "fallback")
            => detailed.r.queried /\ ~PrimaryPrices
    /\ (detailed.done /\ detailed.r.source = "none")
            => BlankName \/ (~PrimaryPrices /\ FallbackMisses)

\* both entry points have answered a model that the primary service prices
\* and that the fallback table has as well
TierPrecedenceWitness ==
    /\ costResult.done /\ detailed.done
    /\ PrimaryPrices
    /\ model = <<"g", "l", "m", "-", "4", ".", "5">>
    /\ detailed.r.source = "genai-prices"
    /\ ~detailed.r.consulted /\ ~costResult.consulted

\* C7: findFallbackPrice returns the first entry equal in model and provider
\* when a hint is given, else the first entry equal in model, else the first
\* entry whose lower-cased name contains or is contained in the lower-cased
\* query, else null; repeated calls return the same entry.
FallbackPriority ==
    /\ \A k \in DOMAIN lookups :
            lookups[k] = DesignatedEntry(priceTable, model, providerId)
    /\ \A j, k \in DOMAIN lookups : lookups[j] = lookups[k]

\* two calls for a query that no entry equals, that contains the name of the
\* first entry and matches the second entry up to case
FallbackPriorityWitness ==
    /\ Len(lookups) = 2
    /\ model = <<"G", "L", "M", "-", "4", ".", "5", "-", "A", "i", "r">>
    /\ lookups[1] = 1
    /\ toLowerCase(model) = priceTable[2].model

\* the rate the claim assigns to a cache field of the price record
StatedRate(prices, key) ==
    IF prices.isArray \/ key \notin prices.keys THEN 0
    ELSE LET v == prices.val[key]
         IN  IF v.t = "number" THEN v.n
             ELSE IF v.t = "string" /\ Number(v.s).finite THEN Number(v.s).v
             ELSE IF v.t = "object" /\ v.baseT = "number" THEN v.baseN
             ELSE 0

\* C8: for a model priced by the primary service and a nonzero cache-write or
\* cache-read count, calculateCost returns the reported total plus each cache
\* count times the reported rate of that kind, a rate being 0 only when it is
\* absent or unrecognized.
CacheAugmentation ==
    (/\ costResult.done /\ costResult.queried /\ PrimaryPrices
     /\ (usage.cacheCreationTokens > 0 \/ usage.cacheReadTokens > 0))
    => costResult.value =
          primary.total_price
          + usage.cacheCreationTokens * StatedRate(primary.prices, "cache_write_mtok")
          + usage.cacheReadTokens * StatedRate(primary.prices, "cache_read_mtok")

FallbackResolves == ~BlankName /\ ~PrimaryPrices /\ ~FallbackMisses
FallbackEntry == priceTable[DesignatedEntry(priceTable, model, providerId)]
RateOf(entry, field) == IF field \in DOMAIN entry THEN entry[field] ELSE 0

\* C9: a cost resolved from a fallback entry is the sum of the four token
\* counts times the entry's rates, an absent cache rate being 0, and
\* calculateDetailedCost itemizes these four terms.
FallbackFormula ==
    /\ (costResult.done /\ FallbackResolves) =>
          costResult.value =
              usage.inputTokens * FallbackEntry.inputPer1M
              + usage.outputTokens * FallbackEntry.outputPer1M
              + usage.cacheCreationTokens * RateOf(FallbackEntry, "cacheWritePer1M")
              + usage.cacheReadTokens * RateOf(FallbackEntry, "cacheReadPer1M")
    /\ (detailed.done /\ FallbackResolves) =>
          /\ detailed.r.source = "fallback"
          /\ detailed.r.inputCost = usage.inputTokens * FallbackEntry.inputPer1M
          /\ detailed.r.outputCost = usage.outputTokens * FallbackEntry.outputPer1M
          /\ detailed.r.cacheWriteCost =
                usage.cacheCreationTokens * RateOf(FallbackEntry, "cacheWritePer1M")
          /\ detailed.r.cacheReadCost =
                usage.cacheReadTokens * RateOf(FallbackEntry, "cacheReadPer1M")
          /\ detailed.r.totalCost =
                detailed.r.inputCost + detailed.r.outputCost
                + detailed.r.cacheWriteCost + detailed.r.cacheReadCost

\* both entry points have priced all four token kinds from an entry that has
\* both cache rates
FallbackFormulaWitness ==
    /\ costResult.done /\ detailed.done
    /\ FallbackResolves
    /\ "cacheWritePer1M" \in DOMAIN FallbackEntry
    /\ "cacheReadPer1M" \in DOMAIN FallbackEntry
    /\ usage.inputTokens > 0 /\ usage.outputTokens > 0
    /\ usage.cacheCreationTokens > 0 /\ usage.cacheReadTokens > 0
    /\ costResult.value > 0

ZeroDetailed ==
    /\ detailed.r.totalCost = 0 /\ detailed.r.inputCost = 0
    /\ detailed.r.outputCost = 0 /\ detailed.r.cacheWriteCost = 0
    /\ detailed.r.cacheReadCost = 0 /\ detailed.r.source = "none"

\* C10: for an empty or whitespace-only model name calculateCost returns 0
\* and queries neither the primary service nor the fallback table; it returns
\* 0 when neither knows the model; in both cases calculateDetailedCost
\* returns all-zero costs with source 'none'.
ZeroCostCases ==
    /\ (costResult.done /\ BlankName) =>
          /\ costResult.value = 0
          /\ ~costResult.queried /\ ~costResult.consulted
    /\ (costResult.done /\ ~PrimaryPrices /\ FallbackMisses) =>
          costResult.value = 0
    /\ (detailed.done /\ (BlankName \/ (~PrimaryPrices /\ FallbackMisses))) =>
          ZeroDetailed

\* a whitespace-only name that the primary service would price, with tokens
ZeroCostWitness ==
    /\ costResult.done /\ detailed.done
    /\ model = <<" ">>
    /\ PrimaryPrices
    /\ usage.inputTokens > 0
    /\ costResult.value = 0

\* C11: calculateCost, calculateDetailedCost and getModelPricing never raise
\* an error, whatever the model name, the token counts, the provider hint and
\* the answer of the primary service (unknown, or a price record of any
\* shape); for a model neither tier knows they return 0, a 'none' result of
\* total 0, and null.
NeverRaises ==
    /\ raised = {}
    /\ (costResult.done /\ ~PrimaryPrices /\ FallbackMisses) =>
          costResult.value = 0
    /\ (detailed.done /\ ~PrimaryPrices /\ FallbackMisses) =>
          detailed.r.source = "none" /\ detailed.r.totalCost = 0
    /\ (pricing.done /\ ~PrimaryPrices /\ FallbackMisses) =>
          pricing.r.isNull

NeverRaisesWitness ==
    /\ costResult.done /\ detailed.done /\ pricing.done
    /\ ~BlankName
    /\ PrimaryPrices
    /\ hasInputPrice(primary.prices)
    /\ priceField(primary.prices, "cache_write_mtok") = Null
    /\ usage.cacheReadTokens > 0
    /\ ~pricing.r.isNull

----------------------------------------------------------------------------
(* statistics.ts *)

\* JS numbers that a division produces: the quotient num / den in lowest
\* terms; den = 0 is the non-finite result of a division by zero
RECURSIVE gcd(_, _)
gcd(a, b) == IF b = 0 THEN a ELSE gcd(b, a % b)

divide(a, b) ==
    IF b = 0 THEN [num |-> a, den |-> 0]
    ELSE IF a = 0 THEN [num |-> 0, den |-> 1]
    ELSE [num |-> a \div gcd(a, b), den |-> b \div gcd(a, b)]

\* the number 0
zero == [num |-> 0, den |-> 1]

PROVIDER_ALIASES ==
    <<[key |-> <<"o", "p", "e", "n", "a", "i">>,
       value |-> <<"c", "o", "d", "e", "x">>]>>

\* variant: the alias table is not consulted
getCanonicalProviderNameUnaliased(provider) == provider

getCanonicalProviderName(provider) ==
    LET alias == mapIndex(PROVIDER_ALIASES, toLowerCase(provider))
    IN  IF alias # 0 THEN PROVIDER_ALIASES[alias].value ELSE provider

createEmptyRow(name) ==
    [name |-> name,
     messageCount |-> 0,
     inputTokens |-> 0,
     outputTokens |-> 0,
     cacheCreationTokens |-> 0,
     cacheReadTokens |-> 0,
     totalTokens |-> 0,
     totalCost |-> 0,
     activeDays |-> 0]

finalizeRow(row) ==
    [row EXCEPT !.totalTokens = row.inputTokens + row.outputTokens
                                + row.cacheCreationTokens + row.cacheReadTokens]

\* accumulateMessage of statistics.ts; the numbers of a message are finite
accumulateRow(row, message) ==
    [row EXCEPT
        !.messageCount = @ + 1,
        !.inputTokens = @ + message.inputTokens,
        !.outputTokens = @ + message.outputTokens,
        !.cacheCreationTokens = @ + message.cacheCreationTokens,
        !.cacheReadTokens = @ + message.cacheReadTokens,
        !.totalCost = @ + message.cost]

\* variant: rows of equal cost are left in the order of the map
compareRowsCostOnly(a, b) == b.totalCost - a.totalCost

\* the comparator of rows.sort
compareRows(a, b) ==
    IF b.totalCost = a.totalCost THEN b.totalTokens - a.totalTokens
    ELSE b.totalCost - a.totalCost

\* Array.prototype.sort is stable: a row goes before the first row that the
\* comparator puts after it
RECURSIVE insertRow(_, _)
insertRow(sorted, row) ==
    IF sorted = <<>> THEN <<row>>
    ELSE IF compareRows(row, Head(sorted)) < 0
         THEN <<row>> \o sorted
         ELSE <<Head(sorted)>> \o insertRow(Tail(sorted), row)

RECURSIVE sortRowsFrom(_, _)
sortRowsFrom(sorted, rest) ==
    IF rest = <<>> THEN sorted
    ELSE sortRowsFrom(insertRow(sorted, Head(rest)), Tail(rest))

mapToSortedRows(usageMap) ==
    sortRowsFrom(<<>>, [i \in DOMAIN usageMap |-> finalizeRow(usageMap[i].value)])

\* usageMap.get(name), the row being created and set when it is undefined
getOrCreateRow(usageMap, name) ==
    IF mapIndex(usageMap, name) = 0
    THEN mapSetNew(usageMap, name, createEmptyRow(name))
    ELSE usageMap

\* the day tracker of a new row is an empty Set
getOrCreateDates(tracker, name) ==
    IF mapIndex(tracker, name) = 0 THEN mapSetNew(tracker, name, {}) ELSE tracker

\* one group of the loop body: get or create the row, accumulate, add the date
accumulateInto(group, name, message) ==
    LET rows == getOrCreateRow(group.rows, name)
        dates == getOrCreateDates(group.dates, name)
        i == mapIndex(rows, name)
    IN  [rows |-> [rows EXCEPT ![i].value = accumulateRow(@, message)],
         dates |-> IF message.date # <<>>
                   THEN [dates EXCEPT ![i].value = @ \cup {message.date}]
                   ELSE dates]

RECURSIVE accumulateMessages(_, _)
accumulateMessages(st, msgs) ==
    IF msgs = <<>> THEN st
    ELSE accumulateMessages(
            [providers |-> accumulateInto(st.providers,
                              getCanonicalProviderName(Head(msgs).provider),
                              Head(msgs)),
             models |-> accumulateInto(st.models, Head(msgs).model, Head(msgs))],
            Tail(msgs))

\* row.activeDays = dates.size, for every row of the map
setActiveDays(group) ==
    [i \in DOMAIN group.rows |->
        [group.rows[i] EXCEPT
            !.value.activeDays = Cardinality(group.dates[i].value)]]

RECURSIVE sumDays(_, _)
sumDays(totals, days) ==
    IF days = <<>> THEN totals
    ELSE sumDays([inputTokens |-> totals.inputTokens + Head(days).inputTokens,
                  outputTokens |-> totals.outputTokens + Head(days).outputTokens,
                  cacheCreationTokens |->
                    totals.cacheCreationTokens + Head(days).cacheCreationTokens,
                  cacheReadTokens |->
                    totals.cacheReadTokens + Head(days).cacheReadTokens,
                  totalCost |-> totals.totalCost + Head(days).totalCost,
                  totalTokens |-> totals.totalTokens + Head(days).totalTokens],
                 Tail(days))

generateCCUsageExport(days) ==
    [daily |-> days,
     totals |-> sumDays([inputTokens |-> 0, outputTokens |-> 0,
                         cacheCreationTokens |-> 0, cacheReadTokens |-> 0,
                         totalCost |-> 0, totalTokens |-> 0], days)]

\* variant: the division is made whatever the number of days
averageOfUnguarded(total, totalDays) == divide(total, totalDays)

\* totalDays > 0 ? total / totalDays : 0
averageOf(total, totalDays) ==
    IF totalDays > 0 THEN divide(total, totalDays) ELSE zero

computeUsageSummary(msgs, days) ==
    LET empty == [rows |-> <<>>, dates |-> <<>>]
        st == accumulateMessages([providers |-> empty, models |-> empty], msgs)
        totals == generateCCUsageExport(days).totals
        totalDays == Len(days)
    IN  [totals |-> totals,
         providerRows |-> mapToSortedRows(setActiveDays(st.providers)),
         modelRows |-> mapToSortedRows(setActiveDays(st.models)),
         messageCount |-> Len(msgs),
         activeDays |-> Cardinality({i \in DOMAIN days : days[i].totalCost > 0}),
         totalDays |-> totalDays,
         averageDailyCost |-> averageOf(totals.totalCost, totalDays),
         averageDailyTokens |-> averageOf(totals.totalTokens, totalDays)]

----------------------------------------------------------------------------
(* Inputs of computeUsageSummary *)

OpenAI == <<"o", "p", "e", "n", "a", "i">>
OpenAICased == <<"O", "p", "e", "n", "A", "I">>
Codex == <<"c", "o", "d", "e", "x">>
Anthropic == <<"a", "n", "t", "h", "r", "o", "p", "i", "c">>

\* provider and model of a record
SummarySources ==
    {[provider |-> OpenAI, model |-> "m1"],
     [provider |-> OpenAICased, model |-> "m2"],
     [provider |-> Codex, model |-> "m1"],
     [provider |-> Anthropic, model |-> "m2"],
     [provider |-> Anthropic, model |-> "m3"]}

\* date, tokens and cost of a record; cost in quarter dollars
SummaryProfiles ==
    {[date |-> <<2024, 1, 1>>, inputTokens |-> 100, outputTokens |-> 60,
      cacheCreationTokens |-> 0, cacheReadTokens |-> 0, cost |-> 1],
     [date |-> <<2024, 1, 2>>, inputTokens |-> 70, outputTokens |-> 40,
      cacheCreationTokens |-> 0, cacheReadTokens |-> 0, cost |-> 1],
     [date |-> <<2024, 1, 2>>, inputTokens |-> 1, outputTokens |-> 2,
      cacheCreationTokens |-> 4, cacheReadTokens |-> 8, cost |-> 2]}

SummaryMessages ==
    {[provider |-> src.provider, model |-> src.model, date |-> u.date,
      inputTokens |-> u.inputTokens, outputTokens |-> u.outputTokens,
      cacheCreationTokens |-> u.cacheCreationTokens,
      cacheReadTokens |-> u.cacheReadTokens, cost |-> u.cost] :
        src \in SummarySources, u \in SummaryProfiles}

\* the DailyUsage entries of the dailyUsage argument
SummaryDays ==
    {[date |-> <<2024, 1, 1>>, inputTokens |-> 150, outputTokens |-> 100,
      cacheCreationTokens |-> 10, cacheReadTokens |-> 5, totalTokens |-> 265,
      totalCost |-> 5, modelsUsed |-> <<"m1">>, modelBreakdowns |-> <<>>],
     [date |-> <<2024, 1, 2>>, inputTokens |-> 80, outputTokens |-> 40,
      cacheCreationTokens |-> 0, cacheReadTokens |-> 0, totalTokens |-> 120,
      totalCost |-> 0, modelsUsed |-> <<>>, modelBreakdowns |-> <<>>]}

----------------------------------------------------------------------------
(* Specification of computeUsageSummary *)

SummaryInit ==
    /\ statMessages \in SeqsUpTo(SummaryMessages, MaxSummaryMsgs)
    /\ statDaily \in SeqsUpTo(SummaryDays, MaxSummaryDays)
    /\ summary = [done |-> FALSE]
    /\ CoreIdle
    /\ DbIdle
    /\ ShowIdle
    /\ SyncIdle
    /\ LateIdle

ComputeUsageSummary ==
    /\ ~summary.done
    /\ summary' = [done |-> TRUE,
                   r |-> computeUsageSummary(statMessages, statDaily)]
    /\ UNCHANGED <<statMessages, statDaily, statOthers>>

SummaryNext == ComputeUsageSummary

SpecSummary == SummaryInit /\ [][SummaryNext]_vars

----------------------------------------------------------------------------
(* Properties of computeUsageSummary *)

\* rows in the order of the claim: cost descending, then tokens descending
RowsOrdered(rows) ==
    \A i, j \in DOMAIN rows :
        i < j =>
            \/ rows[i].totalCost > rows[j].totalCost
            \/ /\ rows[i].totalCost = rows[j].totalCost
               /\ rows[i].totalTokens >= rows[j].totalTokens

\* C12: providerRows and modelRows of the returned summary are each ordered
\* by totalCost descending, rows of equal totalCost by totalTokens descending.
RowsSortedByCostThenTokens ==
    summary.done =>
        /\ RowsOrdered(summary.r.providerRows)
        /\ RowsOrdered(summary.r.modelRows)

\* three model rows, two of them of equal cost and different tokens, created
\* in another order than the sorted one
RowsSortedWitness ==
    /\ summary.done
    /\ Len(summary.r.modelRows) = 3
    /\ summary.r.modelRows[2].totalCost = summary.r.modelRows[3].totalCost
    /\ summary.r.modelRows[2].totalTokens > summary.r.modelRows[3].totalTokens
    /\ statMessages[1].model = summary.r.modelRows[3].name
    /\ statMessages[3].model = summary.r.modelRows[1].name

\* the records of both spellings: tagged with a name the alias table maps to
\* 'codex' (compared in lower case, as the code does), or with 'codex'
SelectSeq2(s, Test(_)) ==
    LET RECURSIVE sel(_)
        sel(t) == IF t = <<>> THEN <<>>
                  ELSE IF Test(Head(t)) THEN <<Head(t)>> \o sel(Tail(t))
                  ELSE sel(Tail(t))
    IN  sel(s)

IsAliased(provider) == toLowerCase(provider) = OpenAI
TaggedCodex(message) == IsAliased(message.provider) \/ message.provider = Codex
CodexRecords == SelectSeq2(statMessages, TaggedCodex)
CodexRows ==
    {i \in DOMAIN summary.r.providerRows : summary.r.providerRows[i].name = Codex}

\* C13: the records tagged with an aliased provider name and those tagged
\* with the canonical name are accumulated into one providerRow, named by the
\* canonical name, whose messageCount, token sums and totalCost are the sums
\* over the records of both spellings; no row bears the aliased name.
AliasCanonicalization ==
    summary.done =>
        /\ \A i \in DOMAIN summary.r.providerRows :
                ~IsAliased(summary.r.providerRows[i].name)
        /\ CodexRecords # <<>> =>
            /\ Cardinality(CodexRows) = 1
            /\ \A i \in CodexRows :
                LET row == summary.r.providerRows[i]
                IN  /\ row.messageCount = Len(CodexRecords)
                    /\ row.totalCost = SumOf(CodexRecords, "cost")
                    /\ \A f \in {"inputTokens", "outputTokens",
                                  "cacheCreationTokens", "cacheReadTokens"} :
                            row[f] = SumOf(CodexRecords, f)
                    /\ row.totalTokens =
                            SumOf(CodexRecords, "inputTokens")
                            + SumOf(CodexRecords, "outputTokens")
                            + SumOf(CodexRecords, "cacheCreationTokens")
                            + SumOf(CodexRecords, "cacheReadTokens")

\* records of the alias, of the canonical name and of another provider
AliasCanonicalizationWitness ==
    /\ summary.done
    /\ \E i, j, k \in DOMAIN statMessages :
            /\ statMessages[i].provider = OpenAI
            /\ statMessages[j].provider = Codex
            /\ statMessages[k].provider = Anthropic
    /\ Len(summary.r.providerRows) = 2

\* C14: with no dailyUsage entry both averages are 0; otherwise they are
\* totals.totalCost / totalDays and totals.totalTokens / totalDays, totalDays
\* being the number of dailyUsage entries.
AveragesDefined ==
    summary.done =>
        /\ summary.r.totalDays = Len(statDaily)
        /\ statDaily = <<>> =>
            /\ summary.r.averageDailyCost = zero
            /\ summary.r.averageDailyTokens = zero
        /\ statDaily # <<>> =>
            /\ summary.r.averageDailyCost.den > 0
            /\ summary.r.averageDailyCost.num * Len(statDaily)
                    = SumOf(statDaily, "totalCost") * summary.r.averageDailyCost.den
            /\ summary.r.averageDailyTokens.den > 0
            /\ summary.r.averageDailyTokens.num * Len(statDaily)
                    = SumOf(statDaily, "totalTokens")
                      * summary.r.averageDailyTokens.den
            /\ summary.r.totals.totalCost = SumOf(statDaily, "totalCost")
            /\ summary.r.totals.totalTokens = SumOf(statDaily, "totalTokens")

\* records but no day, and two days whose average cost is not a whole number
AveragesWitnessEmpty ==
    /\ summary.done
    /\ statDaily = <<>>
    /\ statMessages # <<>>

AveragesWitness ==
    /\ summary.done
    /\ Len(statDaily) = 2
    /\ summary.r.averageDailyCost = [num |-> 5, den |-> 2]

----------------------------------------------------------------------------
(* database/manager.ts: the queries; index.ts: displayStats *)

\* ORDER BY timestamp ASC, rows of equal timestamp in rowid order
RECURSIVE insertByTimestamp(_, _)
insertByTimestamp(sorted, row) ==
    IF sorted = <<>> THEN <<row>>
    ELSE IF row.timestamp < Head(sorted).timestamp
         THEN <<row>> \o sorted
         ELSE <<Head(sorted)>> \o insertByTimestamp(Tail(sorted), row)

RECURSIVE orderByTimestampFrom(_, _)
orderByTimestampFrom(sorted, rest) ==
    IF rest = <<>> THEN sorted
    ELSE orderByTimestampFrom(insertByTimestamp(sorted, Head(rest)), Tail(rest))

\* WHERE date >= ? AND date <= ?
RECURSIVE whereDateBetween(_, _, _)
whereDateBetween(rows, start, end) ==
    IF rows = <<>> THEN <<>>
    ELSE IF localeCompare(Head(rows).date, start) >= 0
            /\ localeCompare(Head(rows).date, end) <= 0
         THEN <<Head(rows)>> \o whereDateBetween(Tail(rows), start, end)
         ELSE whereDateBetween(Tail(rows), start, end)

getMessagesByDateRange(rows, start, end) ==
    orderByTimestampFrom(<<>>, whereDateBetween(rows, start, end))

getDailyUsage(rows, start, end) ==
    aggregateMessagesByDailyUsage(getMessagesByDateRange(rows, start, end))

\* variant: the aggregated days are summarized as they are
normalizedDailyUsageUnfilled(days, start, end) == days

\* fillMissingDates(dailyUsage, startDate, endDate), as the array of entries
normalizedDailyUsage(days, start, end) ==
    LET out == fillMissingDates(days, [i \in DOMAIN days |-> i], start, end)
    IN  [i \in DOMAIN out.result |-> out.heap[out.result[i]]]

\* what displayStats fetches and the summary it renders
displayStats(rows, start, end) ==
    LET msgs == getMessagesByDateRange(rows, start, end)
        days == normalizedDailyUsage(getDailyUsage(rows, start, end), start, end)
    IN  [messages |-> msgs, dailyUsage |-> days,
         summary |-> computeUsageSummary(msgs, days)]

----------------------------------------------------------------------------
(* Inputs of displayStats *)

StatsDates == {<<2023, 12, 31>>, <<2024, 1, 1>>, <<2024, 1, 2>>}
StatsStarts == {<<2023, 12, 31>>, <<2024, 1, 1>>}

\* model, tokens and cost of a stored record; cost in quarter dollars
StatsProfiles ==
    {[model |-> "m1", inputTokens |-> 100, outputTokens |-> 60, cost |-> 1],
     [model |-> "m1", inputTokens |-> 70, outputTokens |-> 40, cost |-> 1],
     [model |-> "m2", inputTokens |-> 5, outputTokens |-> 0, cost |-> 0],
     [model |-> "m2", inputTokens |-> 1, outputTokens |-> 2, cost |-> 2]}

\* a stored record; its timestamp is the midnight of its date, in half days
StatsRows ==
    {[provider |-> <<"p", "1">>, model |-> u.model, date |-> d,
      timestamp |-> 2 * dayjsParse(d),
      inputTokens |-> u.inputTokens, outputTokens |-> u.outputTokens,
      cacheCreationTokens |-> 0, cacheReadTokens |-> 0, cost |-> u.cost] :
        d \in StatsDates, u \in StatsProfiles}

\* the rows with their primary keys
withIds(rows) ==
    [i \in DOMAIN rows |->
        [id |-> i, provider |-> rows[i].provider, model |-> rows[i].model,
         date |-> rows[i].date, timestamp |-> rows[i].timestamp,
         inputTokens |-> rows[i].inputTokens,
         outputTokens |-> rows[i].outputTokens,
         cacheCreationTokens |-> rows[i].cacheCreationTokens,
         cacheReadTokens |-> rows[i].cacheReadTokens, cost |-> rows[i].cost]]

----------------------------------------------------------------------------
(* Specification of displayStats *)

StatsInit ==
    /\ store \in {withIds(rows) : rows \in SeqsUpTo(StatsRows, MaxStoreRows)}
    /\ \E start \in StatsStarts, k \in 0..MaxStatsSpan :
            statsRange = [start |-> start, end |-> DaysAfter(start, k)]
    /\ ccJson = [daily |-> <<>>, sections |-> <<>>]
    /\ dbLog = <<>>
    /\ shown = [done |-> FALSE]
    /\ CoreIdle
    /\ StatIdle
    /\ SyncIdle
    /\ LateIdle

DisplayStats ==
    /\ ~shown.done
    /\ shown' = [done |-> TRUE,
                 r |-> displayStats(store, statsRange.start, statsRange.end)]
    /\ UNCHANGED <<statsRange, showOthers>>

StatsNext == DisplayStats

SpecStats == StatsInit /\ [][StatsNext]_vars

----------------------------------------------------------------------------
(* Properties of displayStats *)

InStatsRange(row) ==
    /\ localeCompare(row.date, statsRange.start) >= 0
    /\ localeCompare(row.date, statsRange.end) <= 0

\* the stored records dated within the range
RangeRecords == {i \in DOMAIN store : InStatsRange(store[i])}

RECURSIVE SumOver(_, _)
SumOver(S, f) ==
    IF S = {} THEN 0
    ELSE LET i == CHOOSE x \in S : TRUE
         IN  store[i][f] + SumOver(S \ {i}, f)

CostOn(date) == SumOver({i \in RangeRecords : store[i].date = date}, "cost")

\* C15: for the records dated within [start, end], the summary of the filled
\* aggregation has totalDays = the number of calendar days of the range,
\* totals.totalCost = the sum of the record costs, activeDays = the number of
\* dates whose summed cost is nonzero, messageCount = the number of records.
PipelineSummary ==
    shown.done =>
        /\ shown.r.summary.totalDays
                = daysBetween(statsRange.start, statsRange.end) + 1
        /\ shown.r.summary.totals.totalCost = SumOver(RangeRecords, "cost")
        /\ shown.r.summary.activeDays
                = Cardinality({store[i].date : i \in
                                    {j \in RangeRecords : CostOn(store[j].date) # 0}})
        /\ shown.r.summary.messageCount = Cardinality(RangeRecords)

\* the scenario: one record of 0.25 on each of 2024-01-01 and 2024-01-02,
\* the range 2024-01-01..2024-01-03, and a record outside of the range
PipelineSummaryWitness ==
    /\ shown.done
    /\ statsRange = [start |-> <<2024, 1, 1>>, end |-> <<2024, 1, 3>>]
    /\ Len(store) = 3
    /\ store[1].date = <<2023, 12, 31>>
    /\ store[2].date = <<2024, 1, 1>> /\ store[2].cost = 1
    /\ store[3].date = <<2024, 1, 2>> /\ store[3].cost = 1
    /\ Len(shown.r.dailyUsage) = 3
    /\ shown.r.dailyUsage[3] = createEmptyDailyUsage(<<2024, 1, 3>>)
    /\ shown.r.summary.totals.totalCost = 2
    /\ shown.r.summary.activeDays = 2
    /\ shown.r.summary.totalDays = 3

----------------------------------------------------------------------------
(* providers/ccusage.ts: the normalization of a cc.json export *)

\* the daily entries of the top level, then those of the nested sections
RECURSIVE sectionEntries(_)
sectionEntries(sections) ==
    IF sections = <<>> THEN <<>>
    ELSE Head(sections).daily \o sectionEntries(Tail(sections))

collectDailyEntries(ccusageData) ==
    ccusageData.daily \o sectionEntries(ccusageData.sections)

detectProviderFromModel(modelName) ==
    LET lower == toLowerCase(modelName)
    IN  IF includes(lower, <<"c", "l", "a", "u", "d", "e">>) THEN "anthropic"
        ELSE IF includes(lower, <<"g", "p", "t">>)
                \/ includes(lower, <<"o", "p", "e", "n", "a", "i">>) THEN "openai"
        ELSE IF includes(lower, <<"g", "e", "m", "i", "n", "i">>) THEN "google"
        ELSE IF includes(lower, <<"q", "w", "e", "n">>) THEN "qwen"
        ELSE IF includes(lower, <<"o", "p", "u", "s">>)
                \/ includes(lower, <<"s", "o", "n", "n", "e", "t">>)
                \/ includes(lower, <<"h", "a", "i", "k", "u">>) THEN "anthropic"
        ELSE IF includes(lower, <<"g", "l", "m">>) THEN "zhipu"
        ELSE IF includes(lower, <<"m", "i", "s", "t", "r", "a", "l">>) THEN "mistral"
        ELSE IF includes(lower, <<"l", "l", "a", "m", "a">>) THEN "meta"
        ELSE IF includes(lower, <<"c", "o", "h", "e", "r", "e">>) THEN "cohere"
        ELSE "ccusage"

\* what calcPrice answers about these tokens when it knows the model (a plain
\* price record without cache prices) and when it does not
calcPriceAnswer(known, tokens) ==
    IF known
    THEN [known |-> TRUE,
          total_price |-> tokens.inputTokens * 300000 + tokens.outputTokens * 1500000,
          input_price |-> tokens.inputTokens * 300000,
          output_price |-> tokens.outputTokens * 1500000,
          providerName |-> "OpenAI", modelName |-> <<"g", "p", "t", "-", "4">>,
          prices |-> PriceRecord(None, None)]
    ELSE [known |-> FALSE, total_price |-> 0, input_price |-> 0,
          output_price |-> 0, providerName |-> "", modelName |-> <<>>,
          prices |-> PriceArray]

tokensOf(r) ==
    [inputTokens |-> r.inputTokens, outputTokens |-> r.outputTokens,
     cacheCreationTokens |-> r.cacheCreationTokens,
     cacheReadTokens |-> r.cacheReadTokens]

\* known: whether the pricing service knows the models at this call
calculateCostOrUseFallback(existingCost, modelName, tokens, provider, known) ==
    IF existingCost > 0 THEN existingCost
    ELSE calculateCost(FALLBACK_PRICES, modelName, tokens, provider,
                       calcPriceAnswer(known, tokens)).value

\* `ccusage-${date}-${modelName}-${i}`, as its three parts
messageId(date, modelName, i) == <<date, modelName, i>>

\* the records of one daily entry; the timestamp is the noon of the date, in
\* half days
convertEntry(dailyEntry, known) ==
    [k \in DOMAIN dailyEntry.modelBreakdowns |->
        LET breakdown == dailyEntry.modelBreakdowns[k]
            provider == detectProviderFromModel(breakdown.modelName)
        IN  [id |-> messageId(dailyEntry.date, breakdown.modelName, k - 1),
             sessionId |-> dailyEntry.date,
             provider |-> provider,
             model |-> breakdown.modelName,
             inputTokens |-> breakdown.inputTokens,
             outputTokens |-> breakdown.outputTokens,
             reasoningTokens |-> 0,
             cacheCreationTokens |-> breakdown.cacheCreationTokens,
             cacheReadTokens |-> breakdown.cacheReadTokens,
             cost |-> calculateCostOrUseFallback(breakdown.cost,
                          breakdown.modelName, tokensOf(breakdown), provider,
                          known),
             timestamp |-> 2 * dayjsParse(dailyEntry.date) + 1,
             date |-> dailyEntry.date]]

RECURSIVE convertEntries(_, _, _)
convertEntries(unifiedMessages, dailyEntries, known) ==
    IF dailyEntries = <<>> THEN unifiedMessages
    ELSE convertEntries(
            unifiedMessages
                \o convertEntry(Head(dailyEntries), known),
            Tail(dailyEntries), known)

convertCcUsageExportToMessages(ccusageData, known) ==
    convertEntries(<<>>, collectDailyEntries(ccusageData), known)

----------------------------------------------------------------------------
(* database/manager.ts: insertMessages *)

RECURSIVE deleteById(_, _)
deleteById(rows, id) ==
    IF rows = <<>> THEN <<>>
    ELSE IF Head(rows).id = id THEN deleteById(Tail(rows), id)
    ELSE <<Head(rows)>> \o deleteById(Tail(rows), id)

\* variant: the row is added whether or not its id is stored
insertMessageAppend(rows, message) == Append(rows, message)

\* INSERT OR REPLACE: the row of this id, if any, is deleted and the new row
\* is added
insertMessage(rows, message) == Append(deleteById(rows, message.id), message)

RECURSIVE insertAll(_, _)
insertAll(rows, batch) ==
    IF batch = <<>> THEN rows
    ELSE insertAll(insertMessage(rows, Head(batch)), Tail(batch))

\* variant: the error is rethrown without ROLLBACK
rollbackOmitted(before, working) == working

\* ROLLBACK: the table is as it was at BEGIN TRANSACTION
rollback(before, working) == before

\* failAt = 0: no statement fails; failAt = k <= Len(batch): the k-th insert
\* raises; failAt = Len(batch) + 1: COMMIT raises.  threw: the call ends by
\* throwing
insertMessages(rows, batch, failAt) ==
    LET working == insertAll(rows, SubSeq(batch, 1,
                        IF failAt = 0 THEN Len(batch) ELSE failAt - 1))
    IN  IF failAt = 0
        THEN [rows |-> working, threw |-> FALSE]
        ELSE [rows |-> rollback(rows, working), threw |-> TRUE]

----------------------------------------------------------------------------
(* Inputs of the ingest command *)

Glm45 == <<"g", "l", "m", "-", "4", ".", "5">>
Gpt4 == <<"g", "p", "t", "-", "4">>
UnknownModel == <<"u", "n", "k", "n", "o", "w", "n", "-", "m", "o", "d", "e", "l">>

Breakdown(modelName, inputTokens, outputTokens, cost) ==
    [modelName |-> modelName, inputTokens |-> inputTokens,
     outputTokens |-> outputTokens, cacheCreationTokens |-> 0,
     cacheReadTokens |-> 0, cost |-> cost]

\* cost in 1e-11 USD, as the pricing computes it
EntryA ==
    [date |-> <<2024, 1, 1>>,
     modelBreakdowns |-> <<Breakdown(Glm45, 1, 1, 0), Breakdown(Gpt4, 1, 0, 3)>>]
EntryB ==
    [date |-> <<2024, 1, 2>>,
     modelBreakdowns |-> <<Breakdown(UnknownModel, 0, 1, 0)>>]
\* the date and first model of EntryA, in another section
EntryC ==
    [date |-> <<2024, 1, 1>>,
     modelBreakdowns |-> <<Breakdown(Glm45, 0, 1, 5)>>]

IngestSources ==
    {[daily |-> <<>>, sections |-> <<>>],
     [daily |-> <<EntryA>>, sections |-> <<>>],
     [daily |-> <<EntryA, EntryB>>, sections |-> <<>>],
     [daily |-> <<EntryB>>, sections |-> <<[daily |-> <<EntryA>>]>>],
     [daily |-> <<EntryA>>, sections |-> <<[daily |-> <<EntryC>>]>>]}

\* rows stored by earlier runs: an earlier version of the first record of
\* EntryA, and a record of another day
StoredOld ==
    [id |-> <<<<2024, 1, 1>>, Glm45, 0>>, sessionId |-> <<2024, 1, 1>>,
     provider |-> "zhipu", model |-> Glm45, inputTokens |-> 1,
     outputTokens |-> 0, reasoningTokens |-> 0, cacheCreationTokens |-> 0,
     cacheReadTokens |-> 0, cost |-> 7, timestamp |-> 2 * dayjsParse(<<2024, 1, 1>>) + 1,
     date |-> <<2024, 1, 1>>]
StoredOther ==
    [id |-> <<<<2023, 12, 31>>, Gpt4, 0>>, sessionId |-> <<2023, 12, 31>>,
     provider |-> "openai", model |-> Gpt4, inputTokens |-> 1,
     outputTokens |-> 1, reasoningTokens |-> 0, cacheCreationTokens |-> 0,
     cacheReadTokens |-> 0, cost |-> 0,
     timestamp |-> 2 * dayjsParse(<<2023, 12, 31>>) + 1,
     date |-> <<2023, 12, 31>>]

IngestStores == {<<>>, <<StoredOld>>, <<StoredOld, StoredOther>>}

----------------------------------------------------------------------------
(* Specification of the ingest command *)

IngestInit ==
    /\ store \in IngestStores
    /\ ccJson \in IngestSources
    /\ dbLog = <<>>
    /\ CoreIdle
    /\ StatIdle
    /\ ShowIdle
    /\ SyncIdle
    /\ LateIdle

\* the ingest command: the export is converted and, when it has records, the
\* batch is inserted; an error ends the command with exit code 1
Ingest ==
    /\ Len(dbLog) < MaxDbCalls
    /\ \E known \in BOOLEAN :
        LET batch == convertCcUsageExportToMessages(ccJson, known)
        IN  IF batch = <<>>
            THEN /\ dbLog' = Append(dbLog,
                        [op |-> "ingest", batch |-> batch, called |-> FALSE,
                         failed |-> FALSE, before |-> store, after |-> store,
                         threw |-> FALSE, exit |-> 0])
                 /\ UNCHANGED store
            ELSE \E failAt \in 0..(Len(batch) + 1) :
                    LET out == insertMessages(store, batch, failAt)
                    IN  /\ store' = out.rows
                        /\ dbLog' = Append(dbLog,
                                [op |-> "ingest", batch |-> batch,
                                 called |-> TRUE, failed |-> failAt # 0,
                                 before |-> store, after |-> out.rows,
                                 threw |-> out.threw,
                                 exit |-> IF out.threw THEN 1 ELSE 0])
    /\ UNCHANGED <<ccJson, coreVars, statVars, showVars, syncVars, lateVars>>

IngestNext == Ingest

SpecIngest == IngestInit /\ [][IngestNext]_vars

----------------------------------------------------------------------------
(* Properties of insertMessages and of the ingest command *)

\* the record of the batch that is inserted last under this id
LastWithId(batch, id) ==
    batch[CHOOSE k \in DOMAIN batch :
            /\ batch[k].id = id
            /\ \A j \in DOMAIN batch : batch[j].id = id => j <= k]

IdsOf(rows) == [i \in DOMAIN rows |-> rows[i].id]

\* C17: the same source is normalized to the same identifiers at every run,
\* and inserting the same batch a second time leaves the table as it was
\* after the first insert; the number of stored records does not grow.
ReingestIdempotent ==
    /\ \A c, d \in DOMAIN dbLog : IdsOf(dbLog[c].batch) = IdsOf(dbLog[d].batch)
    /\ \A c \in DOMAIN dbLog :
        (c > 1 /\ ~dbLog[c - 1].threw /\ ~dbLog[c].threw) =>
            /\ Len(dbLog[c].after) = Len(dbLog[c - 1].after)
            /\ Range(IdsOf(dbLog[c].after)) = Range(IdsOf(dbLog[c - 1].after))
            /\ dbLog[c].batch = dbLog[c - 1].batch =>
                    dbLog[c].after = dbLog[c - 1].after

\* two successful runs on a table that held an earlier version of a record:
\* one with the pricing service answering, one without
ReingestWitness ==
    /\ Len(dbLog) = 2
    /\ dbLog[1].called /\ ~dbLog[1].threw /\ ~dbLog[2].threw
    /\ dbLog[1].before = <<StoredOld, StoredOther>>
    /\ dbLog[1].batch = dbLog[2].batch
    /\ Len(dbLog[1].batch) = 3
    /\ Len(store) = 4

----------------------------------------------------------------------------
(* database/manager.ts: recalculateCosts *)

\* variant: a record with a cost is skipped in both modes
skipsRecordWithCost(recalculateAll, msg) == msg.cost > 0

\* !recalculateAll && msg.cost > 0
skipsRecord(recalculateAll, msg) == ~recalculateAll /\ msg.cost > 0

\* calculateCost(msg.model, ..., msg.provider); known: whether the pricing
\* service knows the models at this call
newCostOf(msg, known) ==
    calculateCost(FALLBACK_PRICES, msg.model, tokensOf(msg), msg.provider,
                  calcPriceAnswer(known, tokensOf(msg))).value

\* UPDATE messages SET cost = ? WHERE id = ?
updateCost(rows, id, newCost) ==
    [i \in DOMAIN rows |->
        IF rows[i].id = id THEN [rows[i] EXCEPT !.cost = newCost] ELSE rows[i]]

\* the loop over the selected rows; st.failAt counts down the records still
\* to be processed before the one whose computation or update raises
RECURSIVE recalculateLoop(_, _, _, _)
recalculateLoop(st, selected, recalculateAll, known) ==
    IF selected = <<>> \/ st.raised THEN st
    ELSE IF skipsRecord(recalculateAll, Head(selected))
         THEN recalculateLoop(st, Tail(selected), recalculateAll, known)
    ELSE IF st.failAt = 1
         THEN [st EXCEPT !.raised = TRUE]
    ELSE recalculateLoop(
            [rows |-> updateCost(st.rows, Head(selected).id,
                                 newCostOf(Head(selected), known)),
             updatedCount |-> st.updatedCount + 1,
             failAt |-> IF st.failAt = 0 THEN 0 ELSE st.failAt - 1,
             raised |-> FALSE],
            Tail(selected), recalculateAll, known)

\* failAt = 0: nothing fails; failAt = k: the k-th record that is not skipped
\* raises at its computation or update, or COMMIT raises when fewer than k
\* records are processed.  threw: the call ends by throwing, and returns
\* nothing
recalculateCosts(rows, recalculateAll, known, failAt) ==
    LET st == recalculateLoop([rows |-> rows, updatedCount |-> 0,
                               failAt |-> failAt, raised |-> FALSE],
                              rows, recalculateAll, known)
    IN  IF failAt = 0
        THEN [rows |-> st.rows, threw |-> FALSE, returned |-> st.updatedCount,
              written |-> st.updatedCount]
        ELSE [rows |-> rollback(rows, st.rows), threw |-> TRUE, returned |-> 0,
              written |-> st.updatedCount]

----------------------------------------------------------------------------
(* Inputs of recalculateCosts *)

StoredRow(date, modelName, provider, inputTokens, outputTokens, cost) ==
    [id |-> <<date, modelName, 0>>, sessionId |-> date,
     provider |-> provider, model |-> modelName, inputTokens |-> inputTokens,
     outputTokens |-> outputTokens, reasoningTokens |-> 0,
     cacheCreationTokens |-> 0, cacheReadTokens |-> 0, cost |-> cost,
     timestamp |-> 2 * dayjsParse(date) + 1, date |-> date]

\* rows with and without a cost; cost in 1e-11 USD
RecalcRows ==
    {StoredRow(<<2024, 1, 1>>, Glm45, "zhipu", 1, 0, 7),
     StoredRow(<<2024, 1, 1>>, Gpt4, "openai", 1, 1, 0),
     StoredRow(<<2024, 1, 2>>, Glm45, "zhipu", 0, 1, 0),
     StoredRow(<<2024, 1, 2>>, UnknownModel, "ccusage", 1, 1, 0)}

\* tables of rows with distinct ids
RecalcStores ==
    {rows \in SeqsUpTo(RecalcRows, MaxRecalcRows) :
        \A i, j \in DOMAIN rows : i # j => rows[i].id # rows[j].id}

----------------------------------------------------------------------------
(* Specification of recalculateCosts *)

RecalcInit ==
    /\ store \in RecalcStores
    /\ ccJson = [daily |-> <<>>, sections |-> <<>>]
    /\ dbLog = <<>>
    /\ CoreIdle
    /\ StatIdle
    /\ ShowIdle
    /\ SyncIdle
    /\ LateIdle

RecalculateCosts ==
    /\ Len(dbLog) < MaxDbCalls
    /\ \E recalculateAll \in BOOLEAN, known \in BOOLEAN,
          failAt \in 0..(Len(store) + 1) :
        LET out == recalculateCosts(store, recalculateAll, known, failAt)
        IN  /\ store' = out.rows
            /\ dbLog' = Append(dbLog,
                    [op |-> "recalculateCosts", recalculateAll |-> recalculateAll,
                     known |-> known, failed |-> failAt # 0,
                     before |-> store, after |-> out.rows, threw |-> out.threw,
                     returned |-> out.returned, written |-> out.written])
    /\ UNCHANGED <<ccJson, coreVars, statVars, showVars, syncVars, lateVars>>

RecalcNext == RecalculateCosts

SpecRecalc == RecalcInit /\ [][RecalcNext]_vars

----------------------------------------------------------------------------
(* Properties of recalculateCosts *)

\* the rows of the call that the mode selects
Selected(call) ==
    {i \in DOMAIN call.before : call.recalculateAll \/ call.before[i].cost = 0}

\* C18: a call that completes writes the recomputed cost of exactly the rows
\* whose cost is 0 (default mode) or of every row (recalculateAll), leaves
\* every other row as it was, and returns the number of rows it updated.
RecalculateSelectsByMode ==
    \A c \in DOMAIN dbLog :
        LET call == dbLog[c]
        IN  ~call.threw =>
                /\ Len(call.after) = Len(call.before)
                /\ \A i \in DOMAIN call.before :
                    IF i \in Selected(call)
                    THEN call.after[i] =
                            [call.before[i] EXCEPT
                                !.cost = newCostOf(call.before[i], call.known)]
                    ELSE call.after[i] = call.before[i]
                /\ call.returned = Cardinality(Selected(call))

\* both modes on a table of rows with and without a cost: the default mode
\* left the priced row alone, the other mode repriced it
RecalculateWitness ==
    /\ Len(dbLog) = 2
    /\ ~dbLog[1].threw /\ ~dbLog[2].threw
    /\ ~dbLog[1].recalculateAll /\ dbLog[2].recalculateAll
    /\ Len(store) = 3
    /\ dbLog[1].before[1].cost = 7
    /\ dbLog[1].after[1].cost = 7
    /\ dbLog[1].returned = 2
    /\ dbLog[2].after[1].cost # 7
    /\ dbLog[2].returned = 3

\* C19: when a step of the pass fails, the call throws and every row, its
\* cost included, is as it was before the call.
RecalculateAtomic ==
    \A c \in DOMAIN dbLog :
        /\ dbLog[c].failed => dbLog[c].threw
        /\ dbLog[c].threw => dbLog[c].after = dbLog[c].before
        /\ c = Len(dbLog) => store = dbLog[c].after

\* the pass fails after it has written a changed cost
RecalculateAtomicWitness ==
    /\ dbLog # <<>>
    /\ dbLog[1].threw
    /\ dbLog[1].written >= 1
    /\ \E i \in DOMAIN store :
            /\ store[i].cost = 0
            /\ newCostOf(store[i], dbLog[1].known) # 0

----------------------------------------------------------------------------
(* index.ts: the sync command *)

\* Object.keys(createProviderAdapter)
AdapterNames == <<"opencode", "qwen", "gemini", "ccusage", "codex">>

buildAdapters(provider) ==
    IF provider = "all" THEN AdapterNames ELSE <<provider>>

\* adapter.dataType
dataTypeOf(name) ==
    IF name \in {"ccusage", "codex"} THEN "usage entries" ELSE "messages"

\* the records of one usage entry
usageEntryMessages(name, entry) ==
    LET message ==
            [id |-> <<name, entry.date, entry.model>>,
             sessionId |-> <<name, entry.date>>,
             provider |-> entry.provider,
             model |-> entry.model,
             inputTokens |-> entry.inputTokens,
             outputTokens |-> entry.outputTokens,
             reasoningTokens |-> entry.reasoningTokens,
             cacheCreationTokens |-> entry.cacheCreationTokens,
             cacheReadTokens |-> entry.cacheReadTokens,
             cost |-> entry.totalCost,
             timestamp |-> 2 * dayjsParse(entry.date),
             date |-> entry.date]
    IN  IF entry.entryCount # 0
        THEN [i \in 1..entry.entryCount |->
                [message EXCEPT !.id = Append(message.id, i - 1)]]
        ELSE <<message>>

\* usageEntries.flatMap(...)
RECURSIVE flatMapEntries(_, _)
flatMapEntries(name, usageEntries) ==
    IF usageEntries = <<>> THEN <<>>
    ELSE usageEntryMessages(name, Head(usageEntries))
         \o flatMapEntries(name, Tail(usageEntries))

\* the records an adapter's fetch leads to
messagesOf(name, items) ==
    IF dataTypeOf(name) = "usage entries" THEN flatMapEntries(name, items)
    ELSE items

\* variant: a plain INSERT that keeps the earlier row of the provider
updateSyncStateInsert(states, provider, timestamp, lastMessageId) ==
    Append(states, [key |-> provider,
                    value |-> [lastSyncTimestamp |-> timestamp,
                               lastMessageId |-> lastMessageId]])

\* INSERT OR REPLACE INTO sync_state, whose primary key is the provider
updateSyncState(states, provider, timestamp, lastMessageId) ==
    mapSet(states, provider,
           [lastSyncTimestamp |-> timestamp, lastMessageId |-> lastMessageId])

\* the body of the loop for an adapter whose fetch returns.  fault: the
\* adapter whose insertMessages fails and the statement that raises ("" for
\* no failure); the error of insertMessages leaves the loop
syncAdapter(st, name, items, now, fault) ==
    LET msgs == messagesOf(name, items)
        out == insertMessages(st.rows, msgs,
                              IF fault.name = name THEN fault.at ELSE 0)
    IN  IF msgs # <<>>
        THEN IF out.threw
             THEN [st EXCEPT !.rows = out.rows, !.raised = TRUE,
                             !.fetched = Append(@, name)]
             ELSE [st EXCEPT
                    !.rows = out.rows,
                    !.syncState = updateSyncState(st.syncState, name, now,
                                                  msgs[Len(msgs)].id),
                    !.totalMessages = @ + Len(msgs),
                    !.fetched = Append(@, name),
                    !.committed = Append(@, name)]
        ELSE [st EXCEPT !.fetched = Append(@, name)]

\* for (const adapter of adapters): the awaited fetch is not inside a try of
\* its own, so its rejection leaves the loop
RECURSIVE syncLoop(_, _, _, _, _)
syncLoop(st, adapters, outcomes, now, fault) ==
    IF adapters = <<>> \/ st.raised THEN st
    ELSE IF outcomes[Head(adapters)].fails
         THEN [st EXCEPT !.raised = TRUE]
    ELSE syncLoop(syncAdapter(st, Head(adapters),
                              outcomes[Head(adapters)].items, now, fault),
                  Tail(adapters), outcomes, now, fault)

\* the action of the command: the loop, then the recalculation; an error is
\* logged as 'Sync failed' and the process exits with code 1.  The statements
\* of the recalculation do not fail here.
sync(rows, states, options, outcomes, now, known, fault) ==
    LET st == syncLoop([rows |-> rows, syncState |-> states,
                        totalMessages |-> 0, fetched |-> <<>>,
                        committed |-> <<>>, raised |-> FALSE],
                       buildAdapters(options.provider), outcomes, now, fault)
    IN  IF st.raised
        THEN [rows |-> st.rows, syncState |-> st.syncState,
              fetched |-> st.fetched, committed |-> st.committed,
              totalMessages |-> st.totalMessages,
              recalculated |-> FALSE, exit |-> 1]
        ELSE [rows |-> recalculateCosts(st.rows, options.recalculateCosts,
                                        known, 0).rows,
              syncState |-> st.syncState,
              fetched |-> st.fetched, committed |-> st.committed,
              totalMessages |-> st.totalMessages,
              recalculated |-> TRUE, exit |-> 0]

----------------------------------------------------------------------------
(* Inputs of the sync command *)

\* one record of a message adapter; cost in 1e-11 USD
SyncMessage(name) ==
    [id |-> <<name, <<2024, 1, 1>>, Gpt4>>,
     sessionId |-> <<name, <<2024, 1, 1>>>>,
     provider |-> name, model |-> Gpt4, inputTokens |-> 1,
     outputTokens |-> 1, reasoningTokens |-> 0, cacheCreationTokens |-> 0,
     cacheReadTokens |-> 0, cost |-> 4,
     timestamp |-> 2 * dayjsParse(<<2024, 1, 1>>), date |-> <<2024, 1, 1>>]

\* one usage entry of a usage adapter, without a cost
SyncEntry(name) ==
    [date |-> <<2024, 1, 2>>, provider |-> "zhipu", model |-> Glm45,
     inputTokens |-> 1, outputTokens |-> 0, reasoningTokens |-> 0,
     cacheCreationTokens |-> 0, cacheReadTokens |-> 0, totalCost |-> 0,
     entryCount |-> 1]

\* a fetch throws, finds nothing, or returns one item
FetchOutcomes(name) ==
    {[fails |-> TRUE, items |-> <<>>],
     [fails |-> FALSE, items |-> <<>>],
     [fails |-> FALSE,
      items |-> IF dataTypeOf(name) = "usage entries"
                THEN <<SyncEntry(name)>> ELSE <<SyncMessage(name)>>]}

SyncProviders == {"all", "qwen", "ccusage"}

\* the sync_state table of earlier runs: empty, or a row of qwen
SyncStates ==
    {<<>>,
     <<[key |-> "qwen",
        value |-> [lastSyncTimestamp |-> 0,
                   lastMessageId |-> <<"qwen", <<2023, 12, 31>>, Gpt4>>]]>>}

\* no statement fails, or the first insert or the COMMIT of the batch of one
\* adapter raises
SyncFaults ==
    {[name |-> "", at |-> 0]}
    \cup {[name |-> n, at |-> k] : n \in {"qwen", "ccusage"}, k \in 1..2}

----------------------------------------------------------------------------
(* Specification of the sync command *)

SyncInit ==
    /\ fetches \in {f \in [Range(AdapterNames) -> UNION {FetchOutcomes(n) :
                                                          n \in Range(AdapterNames)}] :
                        \A n \in Range(AdapterNames) : f[n] \in FetchOutcomes(n)}
    /\ syncOptions \in [provider : SyncProviders, recalculateCosts : BOOLEAN]
    /\ syncState \in SyncStates
    /\ syncOut = [done |-> FALSE]
    /\ store = <<>>
    /\ ccJson = [daily |-> <<>>, sections |-> <<>>]
    /\ dbLog = <<>>
    /\ CoreIdle
    /\ StatIdle
    /\ ShowIdle
    /\ LateIdle

Sync ==
    /\ ~syncOut.done
    /\ \E now \in 1..2, known \in BOOLEAN, fault \in SyncFaults :
        LET out == sync(store, syncState, syncOptions, fetches, now, known,
                        fault)
        IN  /\ store' = out.rows
            /\ syncState' = out.syncState
            /\ syncOut' = [done |-> TRUE, fetched |-> out.fetched,
                           committed |-> out.committed, fault |-> fault,
                           now |-> now, statesBefore |-> syncState,
                           totalMessages |-> out.totalMessages,
                           recalculated |-> out.recalculated,
                           exit |-> out.exit]
    /\ UNCHANGED <<fetches, syncOptions, ccJson, dbLog, coreVars, statVars,
                   showVars, lateVars>>

SyncNext == Sync

SpecSync == SyncInit /\ [][SyncNext]_vars

----------------------------------------------------------------------------
(* Properties of the sync command *)

\* the adapters of the run, and those whose fetch returns and whose insert
\* does not fail
RunAdapters == Range(buildAdapters(syncOptions.provider))
\* the adapter of the run whose batch insert is made to fail, if any
InsertFails(n) ==
    /\ syncOut.fault.name = n
    /\ messagesOf(n, fetches[n].items) # <<>>

Succeeding == {n \in RunAdapters : ~fetches[n].fails /\ ~InsertFails(n)}

StoredIds == {store[i].id : i \in DOMAIN store}

RECURSIVE CountOver(_)
CountOver(names) ==
    IF names = {} THEN 0
    ELSE LET n == CHOOSE x \in names : TRUE
         IN  Len(messagesOf(n, fetches[n].items)) + CountOver(names \ {n})

\* C20: whatever the position of a failing provider, every provider whose
\* fetch succeeds is fetched, its records are stored, and they are counted.
SyncIsolatesProviderFailure ==
    syncOut.done =>
        /\ \A n \in Succeeding :
            /\ n \in Range(syncOut.fetched)
            /\ \A k \in DOMAIN messagesOf(n, fetches[n].items) :
                    messagesOf(n, fetches[n].items)[k].id \in StoredIds
        /\ syncOut.totalMessages = CountOver(Succeeding)

\* what the code does: the providers before the first failing one are
\* fetched and stored, no provider after it is, and the run exits with 1
\* without the recalculation
FirstFailing ==
    {k \in DOMAIN buildAdapters(syncOptions.provider) :
        /\ fetches[buildAdapters(syncOptions.provider)[k]].fails
        /\ \A j \in 1..(k - 1) :
                ~fetches[buildAdapters(syncOptions.provider)[j]].fails}

SyncStopsAtFirstFailure ==
    (syncOut.done /\ ~\E n \in RunAdapters : InsertFails(n)) =>
        /\ FirstFailing = {} =>
            /\ syncOut.exit = 0 /\ syncOut.recalculated
            /\ syncOut.fetched = buildAdapters(syncOptions.provider)
        /\ \A k \in FirstFailing :
            /\ syncOut.exit = 1 /\ ~syncOut.recalculated
            /\ syncOut.fetched = SubSeq(buildAdapters(syncOptions.provider), 1, k - 1)

----------------------------------------------------------------------------
(* providers/opencode.ts: OpenCodeAdapter.fetchMessages *)

Unknown == <<"u", "n", "k", "n", "o", "w", "n">>

\* value ?? fallback on a number that may be undefined
orElse(value, fallback) == IF value.t = "undefined" THEN fallback ELSE value.n

\* message.tokens.cache?.write ?? 0 and message.tokens.cache?.read ?? 0
cacheWriteOf(tokens) == IF tokens.cache.present THEN tokens.cache.write ELSE 0
cacheReadOf(tokens) == IF tokens.cache.present THEN tokens.cache.read ELSE 0

openCodeTokens(message) ==
    [inputTokens |-> message.tokens.input,
     outputTokens |-> message.tokens.output,
     cacheCreationTokens |-> cacheWriteOf(message.tokens),
     cacheReadTokens |-> cacheReadOf(message.tokens)]

openCodeModel(message) ==
    IF message.modelID.t = "undefined" THEN Unknown ELSE message.modelID.s

\* message.cost ?? calculateCost(...), which is called without a provider
openCodeCost(message, known) ==
    IF message.cost.t = "undefined"
    THEN calculateCost(FALLBACK_PRICES, openCodeModel(message),
                       openCodeTokens(message), "",
                       calcPriceAnswer(known, openCodeTokens(message))).value
    ELSE message.cost.n

\* the record pushed for a parsed assistant message with tokens; timestamps
\* are in half days
openCodeRecord(message, known) ==
    LET timestamp == orElse(message.time.completed, message.time.created)
    IN  [id |-> message.id,
         sessionId |-> message.sessionID,
         provider |-> IF message.providerID.t = "undefined" THEN "opencode"
                      ELSE message.providerID.s,
         model |-> openCodeModel(message),
         inputTokens |-> message.tokens.input,
         outputTokens |-> message.tokens.output,
         reasoningTokens |-> orElse(message.tokens.reasoning, 0),
         cacheCreationTokens |-> cacheWriteOf(message.tokens),
         cacheReadTokens |-> cacheReadOf(message.tokens),
         cost |-> openCodeCost(message, known),
         timestamp |-> timestamp,
         date |-> dayjsFormat(timestamp \div 2)]

\* the message file adds no record: readJsonFile raises (caught, a warning),
\* the schema rejects the data, or the message is no assistant message with
\* tokens
openCodeSkips(file) ==
    \/ ~file.readable
    \/ ~file.valid
    \/ file.role # "assistant"
    \/ ~file.tokens.present

RECURSIVE openCodeFiles(_, _, _)
openCodeFiles(unifiedMessages, messageFiles, known) ==
    IF messageFiles = <<>> THEN unifiedMessages
    ELSE openCodeFiles(
            IF openCodeSkips(Head(messageFiles)) THEN unifiedMessages
            ELSE Append(unifiedMessages, openCodeRecord(Head(messageFiles), known)),
            Tail(messageFiles), known)

\* a session directory that cannot be listed is skipped with a warning
RECURSIVE openCodeSessions(_, _, _)
openCodeSessions(unifiedMessages, sessionDirs, known) ==
    IF sessionDirs = <<>> THEN unifiedMessages
    ELSE openCodeSessions(
            IF Head(sessionDirs).listable
            THEN openCodeFiles(unifiedMessages, Head(sessionDirs).files, known)
            ELSE unifiedMessages,
            Tail(sessionDirs), known)

\* storage: whether the messages path can be listed, and its session
\* directories
openCodeFetchMessages(storage, known) ==
    IF ~storage.listable THEN [threw |-> TRUE, messages |-> <<>>]
    ELSE [threw |-> FALSE,
          messages |-> openCodeSessions(<<>>, storage.sessionDirs, known)]

----------------------------------------------------------------------------
(* providers/qwen.ts: QwenAdapter.fetchMessages *)

\* QwenSessionSchema.safeParse: the session fields and every message of the
\* messages array have to fit
qwenParses(session) ==
    /\ session.valid
    /\ \A k \in DOMAIN session.messages : session.messages[k].valid

qwenSkips(message) == message.type # "qwen" \/ ~message.tokens.present

qwenRecord(session, message, known) ==
    LET tokens == [inputTokens |-> message.tokens.input,
                   outputTokens |-> message.tokens.output,
                   cacheCreationTokens |-> 0,
                   cacheReadTokens |-> orElse(message.tokens.cached, 0)]
        modelName == IF message.model.t = "undefined" THEN Unknown
                     ELSE message.model.s
    IN  [id |-> message.id,
         sessionId |-> session.sessionId,
         provider |-> "qwen",
         model |-> modelName,
         inputTokens |-> tokens.inputTokens,
         outputTokens |-> tokens.outputTokens,
         reasoningTokens |-> orElse(message.tokens.thoughts, 0),
         cacheCreationTokens |-> 0,
         cacheReadTokens |-> tokens.cacheReadTokens,
         cost |-> calculateCost(FALLBACK_PRICES, modelName, tokens, "qwen",
                                calcPriceAnswer(known, tokens)).value,
         timestamp |-> message.timestamp,
         date |-> dayjsFormat(message.timestamp \div 2)]

RECURSIVE qwenMessages(_, _, _, _)
qwenMessages(unifiedMessages, session, rest, known) ==
    IF rest = <<>> THEN unifiedMessages
    ELSE qwenMessages(
            IF qwenSkips(Head(rest)) THEN unifiedMessages
            ELSE Append(unifiedMessages, qwenRecord(session, Head(rest), known)),
            session, Tail(rest), known)

\* a session file that cannot be read as JSON, or that the schema rejects,
\* is skipped with a warning
RECURSIVE qwenSessionFiles(_, _, _)
qwenSessionFiles(unifiedMessages, sessionFiles, known) ==
    IF sessionFiles = <<>> THEN unifiedMessages
    ELSE qwenSessionFiles(
            IF Head(sessionFiles).readable /\ qwenParses(Head(sessionFiles))
            THEN qwenMessages(unifiedMessages, Head(sessionFiles),
                              Head(sessionFiles).messages, known)
            ELSE unifiedMessages,
            Tail(sessionFiles), known)

qwenFetchMessages(storage, known) ==
    IF ~storage.listable THEN [threw |-> TRUE, messages |-> <<>>]
    ELSE [threw |-> FALSE,
          messages |-> qwenSessionFiles(<<>>, storage.sessionFiles, known)]

----------------------------------------------------------------------------
(* providers/codex.ts: CodexAdapter.fetchMessages *)

\* variant: every model is given the whole cost of the day
codexCostWhole(dailyEntry, modelEntries) == divide(dailyEntry.costUSD, 1)

\* dailyEntry.costUSD / modelEntries.length
codexCost(dailyEntry, modelEntries) ==
    divide(dailyEntry.costUSD, Len(modelEntries))

\* the records of one daily entry; modelEntries are the [name, data] pairs
\* of Object.entries(dailyEntry.models)
codexEntry(dailyEntry) ==
    LET modelEntries == dailyEntry.models
    IN  [k \in DOMAIN modelEntries |->
            LET modelName == modelEntries[k][1]
                modelData == modelEntries[k][2]
            IN  [id |-> <<"codex", dailyEntry.date, modelName, k - 1>>,
                 sessionId |-> <<"codex-session", dailyEntry.date>>,
                 provider |-> "codex",
                 model |-> modelName,
                 inputTokens |-> modelData.inputTokens - modelData.cachedInputTokens,
                 outputTokens |-> modelData.outputTokens,
                 reasoningTokens |-> modelData.reasoningOutputTokens,
                 cacheCreationTokens |-> 0,
                 cacheReadTokens |-> modelData.cachedInputTokens,
                 cost |-> codexCost(dailyEntry, modelEntries),
                 timestamp |-> 2 * dayjsParse(dailyEntry.date),
                 date |-> dailyEntry.date]]

RECURSIVE codexEntries(_, _)
codexEntries(unifiedMessages, daily) ==
    IF daily = <<>> THEN unifiedMessages
    ELSE codexEntries(unifiedMessages \o codexEntry(Head(daily)), Tail(daily))

\* output: the exit code of the command, whether its output is JSON, whether
\* CodexExportSchema accepts it, and its daily entries
codexFetchMessages(output) ==
    IF output.exitCode # 0 \/ ~output.json
    THEN [threw |-> TRUE, messages |-> <<>>]
    ELSE IF ~output.valid THEN [threw |-> FALSE, messages |-> <<>>]
    ELSE [threw |-> FALSE, messages |-> codexEntries(<<>>, output.daily)]

----------------------------------------------------------------------------
(* Inputs of the provider adapters *)

Tokens(input, output, reasoning, cache) ==
    [present |-> TRUE, input |-> input, output |-> output,
     reasoning |-> reasoning, cache |-> cache]
NoTokens ==
    [present |-> FALSE, input |-> 0, output |-> 0, reasoning |-> Undefined,
     cache |-> [present |-> FALSE, write |-> 0, read |-> 0]]
NoCache == [present |-> FALSE, write |-> 0, read |-> 0]
Cache(write, read) == [present |-> TRUE, write |-> write, read |-> read]

\* a message file of the opencode storage; created is the noon of 2024-01-01
OpenCodeFile(id, readable, valid, role, tokens, cost, modelID, completed) ==
    [id |-> id, readable |-> readable, valid |-> valid, role |-> role,
     sessionID |-> "ses_001", modelID |-> modelID, providerID |-> Undefined,
     tokens |-> tokens, cost |-> cost,
     time |-> [created |-> 2 * dayjsParse(<<2024, 1, 1>>) + 1,
               completed |-> completed]]

OpenCodeFiles ==
    {OpenCodeFile("msg_unreadable", FALSE, FALSE, "user", NoTokens, Undefined,
                  Undefined, Undefined),
     OpenCodeFile("msg_invalid", TRUE, FALSE, "assistant",
                  Tokens(1, 1, Undefined, NoCache), Num(7), Str(Glm45), Undefined),
     OpenCodeFile("msg_user", TRUE, TRUE, "user",
                  Tokens(1, 0, Undefined, NoCache), Undefined, Undefined, Undefined),
     OpenCodeFile("msg_tokenless", TRUE, TRUE, "assistant", NoTokens, Num(7),
                  Str(Glm45), Undefined),
     OpenCodeFile("msg_priced", TRUE, TRUE, "assistant",
                  Tokens(1, 1, Num(1), Cache(1, 1)), Num(125000000), Str(Gpt4),
                  Num(2 * dayjsParse(<<2024, 1, 2>>))),
     OpenCodeFile("msg_unpriced", TRUE, TRUE, "assistant",
                  Tokens(1, 1, Undefined, NoCache), Undefined, Str(Glm45),
                  Undefined),
     OpenCodeFile("msg_free", TRUE, TRUE, "assistant",
                  Tokens(1, 1, Undefined, NoCache), Num(0), Str(Glm45),
                  Undefined),
     OpenCodeFile("msg_modelless", TRUE, TRUE, "assistant",
                  Tokens(0, 1, Undefined, NoCache), Undefined, Undefined,
                  Undefined)}

OpenCodeStorages ==
    {[listable |-> FALSE, sessionDirs |-> <<>>]}
    \cup {[listable |-> TRUE,
           sessionDirs |-> <<[listable |-> TRUE, files |-> fs]>>] :
            fs \in SeqsUpTo(OpenCodeFiles, MaxFiles)}
    \cup {[listable |-> TRUE,
           sessionDirs |-> <<[listable |-> FALSE, files |-> <<>>],
                             [listable |-> TRUE, files |-> <<f>>]>>] :
            f \in OpenCodeFiles}

QwenMessage(id, valid, type, tokens, modelName) ==
    [id |-> id, valid |-> valid, type |-> type, tokens |-> tokens,
     model |-> modelName, timestamp |-> 2 * dayjsParse(<<2024, 1, 1>>) + 1]
QwenTokens(input, output, cached, thoughts) ==
    [present |-> TRUE, input |-> input, output |-> output, cached |-> cached,
     thoughts |-> thoughts]
QwenNoTokens ==
    [present |-> FALSE, input |-> 0, output |-> 0, cached |-> Undefined,
     thoughts |-> Undefined]

CoderModel == <<"c", "o", "d", "e", "r", "-", "m", "o", "d", "e", "l">>

QwenMessages ==
    {QwenMessage("q_invalid", FALSE, "qwen", QwenNoTokens, Undefined),
     QwenMessage("q_user", TRUE, "user", QwenNoTokens, Undefined),
     QwenMessage("q_tokenless", TRUE, "qwen", QwenNoTokens, Str(CoderModel)),
     QwenMessage("q_reply", TRUE, "qwen", QwenTokens(1, 1, Num(1), Num(1)),
                 Str(CoderModel)),
     QwenMessage("q_plain", TRUE, "qwen",
                 QwenTokens(1, 0, Undefined, Undefined), Undefined)}

QwenSession(readable, valid, msgs) ==
    [readable |-> readable, valid |-> valid, sessionId |-> "session-1",
     messages |-> msgs]

QwenStorages ==
    {[listable |-> FALSE, sessionFiles |-> <<>>]}
    \cup {[listable |-> TRUE, sessionFiles |-> <<QwenSession(TRUE, TRUE, ms)>>] :
            ms \in SeqsUpTo(QwenMessages, MaxFiles)}
    \cup {[listable |-> TRUE,
           sessionFiles |-> <<QwenSession(r, v, <<m>>),
                              QwenSession(TRUE, TRUE, <<m>>)>>] :
            r \in BOOLEAN, v \in BOOLEAN, m \in QwenMessages}

Gpt5 == <<"g", "p", "t", "-", "5">>
Gpt5Codex == <<"g", "p", "t", "-", "5", "-", "c", "o", "d", "e", "x">>

CodexModel(inputTokens, cachedInputTokens, outputTokens) ==
    [inputTokens |-> inputTokens, cachedInputTokens |-> cachedInputTokens,
     outputTokens |-> outputTokens, reasoningOutputTokens |-> 0,
     totalTokens |-> inputTokens + outputTokens, isFallback |-> FALSE]

\* the models object of a daily entry, as its entries in key order; the
\* last model reports more cached input tokens than input tokens
CodexModels ==
    {<<>>,
     <<<<Gpt5, CodexModel(2, 1, 1)>>>>,
     <<<<Gpt5, CodexModel(2, 1, 1)>>, <<Gpt5Codex, CodexModel(0, 0, 3)>>>>,
     <<<<Gpt5Codex, CodexModel(1, 1, 0)>>, <<Gpt5, CodexModel(3, 0, 0)>>,
       <<Glm45, CodexModel(1, 2, 1)>>>>}

CodexDailies ==
    {[date |-> d, costUSD |-> c, models |-> ms] :
        d \in {<<2024, 1, 1>>, <<2024, 1, 2>>}, c \in 0..MaxCodexCost,
        ms \in CodexModels}

CodexOutputs ==
    {[exitCode |-> 1, json |-> FALSE, valid |-> FALSE, daily |-> <<>>],
     [exitCode |-> 0, json |-> FALSE, valid |-> FALSE, daily |-> <<>>],
     [exitCode |-> 0, json |-> TRUE, valid |-> FALSE, daily |-> <<>>]}
    \cup {[exitCode |-> 0, json |-> TRUE, valid |-> TRUE, daily |-> ds] :
            ds \in SeqsUpTo(CodexDailies, MaxCodexDays)}

----------------------------------------------------------------------------
(* Specification of the provider adapters *)

NormInit ==
    /\ rawSource \in
        {[name |-> "opencode", data |-> s] : s \in OpenCodeStorages}
        \cup {[name |-> "qwen", data |-> s] : s \in QwenStorages}
        \cup {[name |-> "codex", data |-> s] : s \in CodexOutputs}
    /\ normalized = <<>>
    /\ CoreIdle
    /\ StatIdle
    /\ DbIdle
    /\ ShowIdle
    /\ SyncIdle
    /\ ExportIdle
    /\ DashIdle
    /\ ContainerIdle

\* known: whether the pricing service knows the models during this fetch
FetchOpenCode ==
    /\ rawSource.name = "opencode"
    /\ normalized = <<>>
    /\ \E known \in BOOLEAN :
        LET out == openCodeFetchMessages(rawSource.data, known)
        IN  normalized' = <<[name |-> "opencode", known |-> known,
                             threw |-> out.threw, messages |-> out.messages]>>
    /\ UNCHANGED <<rawSource, normOthers>>

FetchQwen ==
    /\ rawSource.name = "qwen"
    /\ normalized = <<>>
    /\ \E known \in BOOLEAN :
        LET out == qwenFetchMessages(rawSource.data, known)
        IN  normalized' = <<[name |-> "qwen", known |-> known,
                             threw |-> out.threw, messages |-> out.messages]>>
    /\ UNCHANGED <<rawSource, normOthers>>

FetchCodex ==
    /\ rawSource.name = "codex"
    /\ normalized = <<>>
    /\ LET out == codexFetchMessages(rawSource.data)
       IN  normalized' = <<[name |-> "codex", known |-> FALSE,
                            threw |-> out.threw, messages |-> out.messages]>>
    /\ UNCHANGED <<rawSource, normOthers>>

NormNext == FetchOpenCode \/ FetchQwen \/ FetchCodex

SpecNorm == NormInit /\ [][NormNext]_vars

----------------------------------------------------------------------------
(* Properties of the provider adapters *)

Fetched(name) ==
    normalized # <<>> /\ normalized[1].name = name /\ ~normalized[1].threw

RECURSIVE Flatten(_)
Flatten(seqs) ==
    IF seqs = <<>> THEN <<>> ELSE Head(seqs) \o Flatten(Tail(seqs))

\* the message files that can be read, of the session directories that can
\* be listed, in the order they are visited
OpenCodeRead ==
    Flatten([k \in DOMAIN rawSource.data.sessionDirs |->
        IF rawSource.data.sessionDirs[k].listable
        THEN SelectSeq(rawSource.data.sessionDirs[k].files,
                       LAMBDA f : f.readable)
        ELSE <<>>])

\* those of them that are schema-valid assistant messages with token data
OpenCodeBillable ==
    SelectSeq(OpenCodeRead,
              LAMBDA f : f.valid /\ f.role = "assistant" /\ f.tokens.present)

ResolverCost(modelName, tokens, provider, known) ==
    calculateCost(FALLBACK_PRICES, modelName, tokens, provider,
                  calcPriceAnswer(known, tokens)).value

\* C21: the record of a message has the cost reported by the source when it
\* is present and nonzero, and the cost the Pricing Resolver computes for
\* its model and token counts when it is absent or zero.
SourceCostElseResolver ==
    Fetched("opencode") =>
        /\ Len(normalized[1].messages) = Len(OpenCodeBillable)
        /\ \A k \in DOMAIN OpenCodeBillable :
            LET message == OpenCodeBillable[k]
                record == normalized[1].messages[k]
            IN  record.cost =
                    IF message.cost.t = "number" /\ message.cost.n # 0
                    THEN message.cost.n
                    ELSE ResolverCost(record.model, tokensOf(record), "",
                                      normalized[1].known)

\* the messages of the session files that can be read and whose session
\* fields are valid, in the order they are visited
QwenRead ==
    Flatten([k \in DOMAIN rawSource.data.sessionFiles |->
        IF rawSource.data.sessionFiles[k].readable
           /\ rawSource.data.sessionFiles[k].valid
        THEN rawSource.data.sessionFiles[k].messages
        ELSE <<>>])

QwenBillable ==
    SelectSeq(QwenRead,
              LAMBDA m : m.valid /\ m.type = "qwen" /\ m.tokens.present)

IdsOfSeq(seq) == [k \in DOMAIN seq |-> seq[k].id]

\* C25: a fetch over storage that can be listed raises no error and emits
\* exactly one record for each raw message that is schema-valid, is the
\* agent's response and carries token data, in order, and none for any
\* other message, whatever other messages are stored beside it.
SkippedMessagesIsolated ==
    /\ (normalized # <<>> /\ normalized[1].name = "opencode"
        /\ rawSource.data.listable) =>
            /\ ~normalized[1].threw
            /\ IdsOfSeq(normalized[1].messages) = IdsOfSeq(OpenCodeBillable)
    /\ (normalized # <<>> /\ normalized[1].name = "qwen"
        /\ rawSource.data.listable) =>
            /\ ~normalized[1].threw
            /\ IdsOfSeq(normalized[1].messages) = IdsOfSeq(QwenBillable)

\* what the code does for opencode: the claim's statement holds
OpenCodeSkipsIsolated ==
    (normalized # <<>> /\ normalized[1].name = "opencode"
     /\ rawSource.data.listable) =>
        /\ ~normalized[1].threw
        /\ IdsOfSeq(normalized[1].messages) = IdsOfSeq(OpenCodeBillable)

\* the number of records of the daily entries before the j-th
RECURSIVE RecordsBefore(_, _)
RecordsBefore(daily, j) ==
    IF j <= 1 THEN 0
    ELSE RecordsBefore(daily, j - 1) + Len(daily[j - 1].models)

TokensNonNegative ==
    normalized # <<>> =>
        \A k \in DOMAIN normalized[1].messages :
            LET record == normalized[1].messages[k]
            IN  /\ record.inputTokens >= 0
                /\ record.outputTokens >= 0
                /\ record.reasoningTokens >= 0
                /\ record.cacheCreationTokens >= 0
                /\ record.cacheReadTokens >= 0

----------------------------------------------------------------------------
(* aggregator.ts generateDateRange, exporters/ccusage.ts and exporters/json.ts *)

\* <<>> is an option that is not given; today is the date of dayjs()
generateDateRange(startOption, endOption, today) ==
    LET end == IF endOption # <<>> THEN dayjsParse(endOption) ELSE dayjsParse(today)
        start == IF startOption # <<>> THEN dayjsParse(startOption) ELSE end - 30
    IN  [start |-> dayjsFormat(start), end |-> dayjsFormat(end)]

\* CCUsageExporter: the flat report of the range
exportFlat(rows, options, today) ==
    LET range == generateDateRange(options.startDate, options.endDate, today)
    IN  generateCCUsageExport(getDailyUsage(rows, range.start, range.end))

\* the first loop of generateExport: the messages of each provider, in a Map
\* keyed by provider name
RECURSIVE groupByProvider(_, _)
groupByProvider(providerMessagesMap, msgs) ==
    IF msgs = <<>> THEN providerMessagesMap
    ELSE LET msg == Head(msgs)
             pm == IF mapIndex(providerMessagesMap, msg.provider) = 0
                   THEN mapSetNew(providerMessagesMap, msg.provider, <<>>)
                   ELSE providerMessagesMap
             pi == mapIndex(pm, msg.provider)
         IN  groupByProvider([pm EXCEPT ![pi].value = Append(@, msg)],
                             Tail(msgs))

\* variant: the cache reads are left out of the day's totalTokens
addToDayNoCacheRead(daily, msg) ==
    [daily EXCEPT
        !.inputTokens = @ + msg.inputTokens,
        !.outputTokens = @ + msg.outputTokens,
        !.cacheCreationTokens = @ + msg.cacheCreationTokens,
        !.cacheReadTokens = @ + msg.cacheReadTokens,
        !.totalTokens = @ + (msg.inputTokens + msg.outputTokens
                             + msg.cacheCreationTokens),
        !.totalCost = @ + msg.cost,
        !.modelsUsed = IF \E k \in DOMAIN @ : @[k] = msg.model THEN @
                       ELSE Append(@, msg.model)]

\* the day's own sums and modelsUsed
addToDay(daily, msg) ==
    [daily EXCEPT
        !.inputTokens = @ + msg.inputTokens,
        !.outputTokens = @ + msg.outputTokens,
        !.cacheCreationTokens = @ + msg.cacheCreationTokens,
        !.cacheReadTokens = @ + msg.cacheReadTokens,
        !.totalTokens = @ + (msg.inputTokens + msg.outputTokens
                             + msg.cacheCreationTokens + msg.cacheReadTokens),
        !.totalCost = @ + msg.cost,
        !.modelsUsed = IF \E k \in DOMAIN @ : @[k] = msg.model THEN @
                       ELSE Append(@, msg.model)]

\* daily.modelBreakdowns.find(...): the index of the first breakdown of the
\* model, 0 for undefined
RECURSIVE findBreakdownFrom(_, _, _)
findBreakdownFrom(modelBreakdowns, modelName, i) ==
    IF i > Len(modelBreakdowns) THEN 0
    ELSE IF modelBreakdowns[i].modelName = modelName THEN i
    ELSE findBreakdownFrom(modelBreakdowns, modelName, i + 1)

addToModel(daily, msg) ==
    LET bs == IF findBreakdownFrom(daily.modelBreakdowns, msg.model, 1) = 0
              THEN Append(daily.modelBreakdowns,
                          createEmptyModelBreakdown(msg.model))
              ELSE daily.modelBreakdowns
        bi == findBreakdownFrom(bs, msg.model, 1)
    IN  [daily EXCEPT !.modelBreakdowns =
            [bs EXCEPT ![bi] = addToBreakdown(@, msg)]]

\* the body of the loop over the messages of one provider
RECURSIVE exportAccumulate(_, _)
exportAccumulate(dailyMap, msgs) ==
    IF msgs = <<>> THEN dailyMap
    ELSE LET msg == Head(msgs)
             dm == IF mapIndex(dailyMap, msg.date) = 0
                   THEN mapSetNew(dailyMap, msg.date,
                                  createEmptyDailyUsage(msg.date))
                   ELSE dailyMap
             di == mapIndex(dm, msg.date)
         IN  exportAccumulate(
                [dm EXCEPT ![di].value = addToModel(addToDay(@, msg), msg)],
                Tail(msgs))

\* the report of one provider
providerExport(providerMessages) ==
    LET dailyMap == exportAccumulate(<<>>, providerMessages)
    IN  generateCCUsageExport(
            sortByDate([i \in DOMAIN dailyMap |-> dailyMap[i].value]))

\* JSONExporter.generateExport: providerData as its [key, value] entries
generateExport(rows, options, today) ==
    LET range == generateDateRange(options.startDate, options.endDate, today)
        grouped == groupByProvider(<<>>,
                        getMessagesByDateRange(rows, range.start, range.end))
    IN  [i \in DOMAIN grouped |->
            [key |-> grouped[i].key,
             value |-> providerExport(grouped[i].value)]]

----------------------------------------------------------------------------
(* Inputs of the exporters *)

ExportDates == {<<2023, 12, 31>>, <<2024, 1, 1>>}
ExportToday == <<2024, 1, 1>>
ExportProviders == {<<"q", "w", "e", "n">>, <<"c", "o", "d", "e", "x">>}

ExportProfiles ==
    {[model |-> "m1", inputTokens |-> 100, outputTokens |-> 60,
      cacheReadTokens |-> 1, cost |-> 1],
     [model |-> "m2", inputTokens |-> 5, outputTokens |-> 3,
      cacheReadTokens |-> 0, cost |-> 2]}

\* a stored record; its timestamp is the midnight of its date, in half days
ExportRows ==
    {[provider |-> p, model |-> u.model, date |-> d,
      timestamp |-> 2 * dayjsParse(d),
      inputTokens |-> u.inputTokens, outputTokens |-> u.outputTokens,
      cacheCreationTokens |-> 0, cacheReadTokens |-> u.cacheReadTokens,
      cost |-> u.cost] :
        p \in ExportProviders, d \in ExportDates, u \in ExportProfiles}

ExportOptions ==
    {[startDate |-> <<>>, endDate |-> <<>>],
     [startDate |-> <<2024, 1, 1>>, endDate |-> <<>>],
     [startDate |-> <<2023, 12, 31>>, endDate |-> <<2023, 12, 31>>]}

----------------------------------------------------------------------------
(* Specification of the exporters *)

ExportInit ==
    /\ store \in {withIds(rows) : rows \in SeqsUpTo(ExportRows, MaxExportRows)}
    /\ exportRun \in {[options |-> o, flat |-> [done |-> FALSE],
                       json |-> [done |-> FALSE]] : o \in ExportOptions}
    /\ ccJson = [daily |-> <<>>, sections |-> <<>>]
    /\ dbLog = <<>>
    /\ CoreIdle
    /\ StatIdle
    /\ ShowIdle
    /\ SyncIdle
    /\ NormIdle
    /\ DashIdle
    /\ ContainerIdle

\* export ccusage
ExportFlat ==
    /\ ~exportRun.flat.done
    /\ exportRun' = [exportRun EXCEPT !.flat =
            [done |-> TRUE,
             r |-> exportFlat(store, exportRun.options, ExportToday)]]
    /\ UNCHANGED <<store, exportOthers>>

\* json
ExportJson ==
    /\ ~exportRun.json.done
    /\ exportRun' = [exportRun EXCEPT !.json =
            [done |-> TRUE,
             r |-> generateExport(store, exportRun.options, ExportToday)]]
    /\ UNCHANGED <<store, exportOthers>>

ExportNext == ExportFlat \/ ExportJson

SpecExport == ExportInit /\ [][ExportNext]_vars

----------------------------------------------------------------------------
(* Properties of the exporters *)

ExportRange ==
    [start |-> IF exportRun.options.startDate # <<>>
               THEN exportRun.options.startDate
               ELSE dayjsFormat(dayjsParse(ExportToday) - 30),
     end |-> IF exportRun.options.endDate # <<>>
             THEN exportRun.options.endDate ELSE ExportToday]

\* the stored records of the range, and those of one provider
ExportRecords ==
    {i \in DOMAIN store :
        /\ localeCompare(store[i].date, ExportRange.start) >= 0
        /\ localeCompare(store[i].date, ExportRange.end) <= 0}
RecordsOf(provider) == {i \in ExportRecords : store[i].provider = provider}

TotalsFields ==
    {"inputTokens", "outputTokens", "cacheCreationTokens", "cacheReadTokens"}

\* the field of the totals summed over the records S
TotalOver(S, f) ==
    IF f = "totalCost" THEN SumOver(S, "cost")
    ELSE IF f = "totalTokens"
    THEN SumOver(S, "inputTokens") + SumOver(S, "outputTokens")
         + SumOver(S, "cacheCreationTokens") + SumOver(S, "cacheReadTokens")
    ELSE SumOver(S, f)

----------------------------------------------------------------------------
(* Identifiers within one ingestion *)

\* C23: the records normalized from the daily entries of one export have
\* pairwise different identifiers, so an ingest into an empty table that
\* commits stores as many records as were normalized.
IdsCollisionFree ==
    \A c \in DOMAIN dbLog :
        /\ \A i, j \in DOMAIN dbLog[c].batch :
                dbLog[c].batch[i].id = dbLog[c].batch[j].id => i = j
        /\ (dbLog[c].called /\ ~dbLog[c].threw /\ dbLog[c].before = <<>>) =>
                Len(dbLog[c].after) = Len(dbLog[c].batch)

----------------------------------------------------------------------------
(* The sync_state table during a sync run *)

\* the rows of a provider in the table
StateRowsOf(states, n) ==
    {states[i].value : i \in {j \in DOMAIN states : states[j].key = n}}

\* the loop reaches the adapter: no earlier adapter's fetch or insert fails
Reached(n) ==
    \E k \in DOMAIN buildAdapters(syncOptions.provider) :
        /\ buildAdapters(syncOptions.provider)[k] = n
        /\ \A j \in 1..(k - 1) :
            /\ ~fetches[buildAdapters(syncOptions.provider)[j]].fails
            /\ ~InsertFails(buildAdapters(syncOptions.provider)[j])

\* the batch of the adapter is committed by the run
Committed(n) ==
    /\ Reached(n)
    /\ ~fetches[n].fails
    /\ messagesOf(n, fetches[n].items) # <<>>
    /\ ~InsertFails(n)

\* C24: after a sync run the sync_state table has at most one row per
\* provider; the row of a provider whose fetch fails, whose batch insert is
\* rolled back, or that yields no records is as it was before the run; a row
\* is new only for a provider whose batch is committed and stored, and it
\* then names the last record of that batch and the time of the run.
SyncStateAfterCommit ==
    syncOut.done =>
        /\ \A i, j \in DOMAIN syncState :
                syncState[i].key = syncState[j].key => i = j
        /\ \A n \in Range(AdapterNames) :
            LET msgs == messagesOf(n, fetches[n].items)
            IN  /\ (\/ n \notin RunAdapters
                    \/ fetches[n].fails
                    \/ InsertFails(n)
                    \/ msgs = <<>>) =>
                        StateRowsOf(syncState, n)
                            = StateRowsOf(syncOut.statesBefore, n)
                /\ StateRowsOf(syncState, n)
                        # StateRowsOf(syncOut.statesBefore, n) =>
                    /\ Committed(n)
                    /\ n \in Range(syncOut.committed)
                    /\ \A k \in DOMAIN msgs : msgs[k].id \in StoredIds
                /\ (n \in RunAdapters /\ Committed(n)) =>
                    StateRowsOf(syncState, n)
                        = {[lastSyncTimestamp |-> syncOut.now,
                            lastMessageId |-> msgs[Len(msgs)].id]}

\* a run over all providers in which opencode is committed and gets its row,
\* and the insert of qwen is rolled back and the earlier row of qwen is kept
SyncStateWitness ==
    /\ syncOut.done
    /\ syncOptions.provider = "all"
    /\ Committed("opencode")
    /\ StateRowsOf(syncState, "opencode") # {}
    /\ InsertFails("qwen") /\ Reached("qwen")
    /\ StateRowsOf(syncOut.statesBefore, "qwen") # {}
    /\ StateRowsOf(syncState, "qwen") = StateRowsOf(syncOut.statesBefore, "qwen")

\* a run of qwen alone that replaces the earlier row of qwen
SyncStateReplaced ==
    /\ syncOut.done
    /\ Committed("qwen")
    /\ StateRowsOf(syncOut.statesBefore, "qwen") # {}

----------------------------------------------------------------------------
(* ui/Dashboard.tsx: the keyboard input of the dashboard *)

periods == <<"daily", "weekly", "monthly", "yearly">>

\* Array.prototype.indexOf, counted from 0; -1 when the value is absent
RECURSIVE indexOfFrom(_, _, _)
indexOfFrom(array, value, i) ==
    IF i > Len(array) THEN -1
    ELSE IF array[i] = value THEN i - 1
    ELSE indexOfFrom(array, value, i + 1)
indexOf(array, value) == indexOfFrom(array, value, 1)

\* variant: the last period is not left
nextIndexClamped(currentIndex, length) ==
    IF currentIndex + 1 >= length THEN length - 1 ELSE currentIndex + 1

\* (currentIndex + 1) % periods.length
nextIndex(currentIndex, length) == (currentIndex + 1) % length

\* the onPeriodChange of the parent: the request is recorded, and the parent
\* (DashboardContainer.handlePeriodChange) renders the dashboard again with
\* the requested period as currentPeriod
onPeriodChange(d, period) ==
    [d EXCEPT !.requested = Append(@, [from |-> d.currentPeriod, to |-> period]),
              !.currentPeriod = period]

handlePeriodToggle(d) ==
    IF ~d.hasHandler THEN d
    ELSE onPeriodChange(d,
            periods[nextIndex(indexOf(periods, d.currentPeriod),
                              Len(periods)) + 1])

\* handleRefresh of the dashboard: onRefresh() and the countdown starts again
dashHandleRefresh(d) ==
    [d EXCEPT !.refreshed = TRUE, !.timeUntilRefresh = d.refreshInterval]

Min(a, b) == IF a <= b THEN a ELSE b
Max(a, b) == IF a >= b THEN a ELSE b

\* the handler given to useInput; input is the key: a character, or
\* "ctrl-c", "return", "escape"
useInput(d, input) ==
    IF input = "ctrl-c" THEN [d EXCEPT !.exited = TRUE]
    ELSE IF d.showHelp
    THEN IF input \in {"?", "escape", "return"}
         THEN [d EXCEPT !.showHelp = FALSE]
         ELSE d
    ELSE IF input = "return" THEN dashHandleRefresh(d)
    ELSE IF input = "r" THEN dashHandleRefresh(d)
    ELSE IF input = "a" THEN [d EXCEPT !.autoRefresh = ~@]
    ELSE IF input = "+"
    THEN [d EXCEPT !.refreshInterval = Min(300, d.refreshInterval + 10),
                   !.timeUntilRefresh = Min(300, d.refreshInterval + 10)]
    ELSE IF input = "-"
    THEN [d EXCEPT !.refreshInterval = Max(10, d.refreshInterval - 10),
                   !.timeUntilRefresh = Max(10, d.refreshInterval - 10)]
    ELSE IF input = "p" THEN handlePeriodToggle(d)
    ELSE IF input = "?" THEN [d EXCEPT !.showHelp = TRUE]
    ELSE d

----------------------------------------------------------------------------
(* Specification of the dashboard *)

DashKeys == {"ctrl-c", "return", "escape", "r", "a", "+", "-", "p", "?", "x"}

\* the props of the first render and the initial state of the component
DashInit ==
    /\ dash \in {[hasHandler |-> h, currentPeriod |-> p, showHelp |-> FALSE,
                  autoRefresh |-> TRUE, refreshInterval |-> 30,
                  timeUntilRefresh |-> 30, refreshed |-> FALSE,
                  exited |-> FALSE, requested |-> <<>>, keys |-> 0,
                  lastKey |-> "", helpAtKey |-> FALSE] :
                    h \in BOOLEAN, p \in Range(periods)}
    /\ CoreIdle
    /\ StatIdle
    /\ DbIdle
    /\ ShowIdle
    /\ SyncIdle
    /\ NormIdle
    /\ ExportIdle
    /\ ContainerIdle

\* one key press; lastKey and helpAtKey record the key and whether the help
\* overlay was shown when it was pressed
PressKey ==
    /\ ~dash.exited
    /\ dash.keys < MaxKeys
    /\ \E input \in DashKeys :
        dash' = [useInput(dash, input) EXCEPT
                    !.keys = dash.keys + 1, !.lastKey = input,
                    !.helpAtKey = dash.showHelp]
    /\ UNCHANGED dashOthers

DashNext == PressKey

SpecDash == DashInit /\ [][DashNext]_vars

----------------------------------------------------------------------------
(* Properties of the dashboard *)

CycleNext(period) ==
    CASE period = "daily" -> "weekly"
      [] period = "weekly" -> "monthly"
      [] period = "monthly" -> "yearly"
      [] period = "yearly" -> "daily"

\* C28: a press of 'p' with the help overlay closed and a period-change
\* handler supplied requests the period that follows the current one in
\* the cycle daily, weekly, monthly, yearly, daily; the fourth of four
\* consecutive requests asks for the period the first started from; any
\* other key, a press while the help overlay is shown, and a press without
\* a handler request nothing.
PeriodCycleStep ==
    /\ (dash'.lastKey = "p" /\ ~dash.showHelp /\ dash.hasHandler) =>
            /\ dash'.requested =
                    Append(dash.requested,
                           [from |-> dash.currentPeriod,
                            to |-> CycleNext(dash.currentPeriod)])
            /\ dash'.currentPeriod = CycleNext(dash.currentPeriod)
    /\ (dash'.lastKey # "p" \/ dash.showHelp \/ ~dash.hasHandler) =>
            /\ dash'.requested = dash.requested
            /\ dash'.currentPeriod = dash.currentPeriod
    /\ \A k \in DOMAIN dash'.requested :
            k + 3 \in DOMAIN dash'.requested =>
                dash'.requested[k + 3].to = dash'.requested[k].from

PeriodCycle == [][PeriodCycleStep]_vars

\* four presses of 'p' have been answered, starting from 'yearly'
PeriodCycleWitness ==
    /\ dash # <<>>
    /\ Len(dash.requested) = 4
    /\ dash.requested[1].from = "yearly"
    /\ dash.requested[4].to = "yearly"

\* 'p' was pressed while the help overlay was shown
PeriodHelpWitness ==
    /\ dash # <<>>
    /\ dash.lastKey = "p" /\ dash.helpAtKey /\ dash.hasHandler

----------------------------------------------------------------------------
(* The two cost entry points *)

\* C29: for the same model, token counts, provider hint and answer of the
\* primary service, the totalCost of calculateDetailedCost is the number
\* calculateCost returns, in the primary, the fallback and the no-price tier.
EntryPointsAgree ==
    (costResult.done /\ detailed.done) =>
        detailed.r.totalCost = costResult.value

----------------------------------------------------------------------------
(* DashboardContainer: refreshes of the live view *)

\* updatePeriod of the live command: the parent's current period, which
\* stands for the date range getDateRangeForPeriod derives from it
updatePeriod(c, period) == [c EXCEPT !.currentPeriod = period]

\* fetchData as the live command wires it: the summary of the parent's range
\* at the moment of the call; the promise it returns resolves later
fetchData(c, id) == [id |-> id, period |-> c.currentPeriod]

\* handleRefresh up to its await: isLoading is set and fetchData is called
handleRefreshStart(c) ==
    [c EXCEPT !.isLoading = TRUE,
              !.started = @ + 1,
              !.inFlight = @ \cup {fetchData(c, c.started + 1)}]

\* handleRefresh after its await: setData(newData), then the finally block
handleRefreshResume(c, newData) ==
    [c EXCEPT !.data = <<newData>>,
              !.isLoading = FALSE,
              !.inFlight = @ \ {newData}]

\* handlePeriodChange: the period is selected, the parent is told, and a
\* refresh is scheduled with setTimeout(..., 0)
handlePeriodChange(c, period) ==
    [updatePeriod(c, period) EXCEPT !.internalCurrentPeriod = period,
                                    !.timeouts = @ + 1]

\* the state after the first render: no data, loading, monthly
ContainerInit ==
    /\ container = [data |-> <<>>, isLoading |-> TRUE, hasInitialized |-> FALSE,
                    internalCurrentPeriod |-> "monthly",
                    currentPeriod |-> "monthly",
                    started |-> 0, inFlight |-> {}, timeouts |-> 0]
    /\ CoreIdle /\ StatIdle /\ DbIdle /\ ShowIdle /\ SyncIdle
    /\ NormIdle /\ ExportIdle /\ DashIdle

\* the effect of the initial load
InitialLoad ==
    /\ ~container.hasInitialized
    /\ container' = [handleRefreshStart(container) EXCEPT !.hasInitialized = TRUE]
    /\ UNCHANGED containerOthers

\* the 30-second interval fires
IntervalRefresh ==
    /\ container.hasInitialized
    /\ container.started + container.timeouts < MaxRefreshes
    /\ container' = handleRefreshStart(container)
    /\ UNCHANGED containerOthers

\* the Dashboard, rendered once there is data, asks for a refresh
ManualRefresh ==
    /\ container.data # <<>>
    /\ container.started + container.timeouts < MaxRefreshes
    /\ container' = handleRefreshStart(container)
    /\ UNCHANGED containerOthers

\* the Dashboard asks for the next period
PeriodChange ==
    /\ container.data # <<>>
    /\ container.started + container.timeouts < MaxRefreshes
    /\ container' = handlePeriodChange(container,
           periods[nextIndex(indexOf(periods, container.internalCurrentPeriod),
                             Len(periods)) + 1])
    /\ UNCHANGED containerOthers

\* the callback of setTimeout(..., 0) runs handleRefresh
TimeoutRefresh ==
    /\ container.timeouts > 0
    /\ container' = [handleRefreshStart(container) EXCEPT !.timeouts = @ - 1]
    /\ UNCHANGED containerOthers

\* the promise of one in-flight fetchData resolves
RefreshResolves ==
    /\ \E newData \in container.inFlight :
           container' = handleRefreshResume(container, newData)
    /\ UNCHANGED containerOthers

ContainerNext ==
    \/ InitialLoad
    \/ IntervalRefresh
    \/ ManualRefresh
    \/ PeriodChange
    \/ TimeoutRefresh
    \/ RefreshResolves

SpecContainer == ContainerInit /\ [][ContainerNext]_vars

\* no refresh is in flight and none is scheduled
ContainerSettled ==
    /\ container # <<>>
    /\ container.started > 0
    /\ container.inFlight = {}
    /\ container.timeouts = 0

====
